---------------------------- MODULE Spec2Model ----------------------------
(***************************************************************************)
(* Model of the retrieval support library: the recursive text splitter     *)
(* (src/libs/splitter) and the reranking strategies (src/libs/reranker).   *)
(*                                                                         *)
(* A text is a sequence of characters; a character is a one-element        *)
(* string atom.  Characters outside ASCII are written by their code point  *)
(* ("u3002" is the ideographic full stop).                                 *)
(***************************************************************************)
EXTENDS Integers, Sequences, FiniteSets, TLC

VARIABLES
    splitter,   \* the RecursiveSplitter instance (exists = FALSE: none built)
    ctor,       \* the last constructor call: its arguments and whether it raised
    call,       \* the last split_text call: its argument, locals and outcome
    frames,     \* the call stack of _split_recursive (step-wise specification)
    steps,      \* the step-wise run: its phase, input and result
    reranker,   \* the reranker instance: its backend, settings and diagnostics
    rerank,     \* the last call on the reranker: its arguments and outcome
    threads,    \* rerank calls of two threads on one scored reranker
    factory,    \* the registries of both factories and the last call on them
    stitch      \* the last overlap stitching: the chunks it got and returned

splitVars == <<splitter, ctor, call>>
stepVars == <<frames, steps>>
rerankVars == <<reranker, rerank>>
vars == <<splitter, ctor, call, frames, steps, reranker, rerank, threads,
         factory, stitch>>

----------------------------------------------------------------------------
(* Bounds of the model. *)

\* Longest input text, counted in tokens of TextTokens.
MaxTokens == 4
\* Largest chunk_size given to the constructor.
MaxChunkSize == 5
\* Longest input text of the step-wise specification, in tokens.
MaxStepTokens == 3

\* The longest chunk, and the most chunks, handed to the overlap stitching.
MaxChunkLen == 2
MaxChunks == 3
\* Deepest stack of _split_recursive calls the step-wise specification
\* follows; StepsInv states that no run reaches it.
MaxDepth == 6
\* Most steps of one split_text call the step-wise specification follows;
\* StepsInv states that no run reaches it.
MaxSteps == 48
\* Most candidates of a reranker call.
MaxCandidates == 3
\* Largest top_k of a reranker call.
MaxTopK == 2
\* Largest batch_size of the scored reranker.
MaxBatchSize == 2
\* Largest max_retries of the generative reranker.
MaxRetries == 1
\* Most rerank calls made on one scored reranker, and the longest candidate
\* list of those calls.
MaxCalls == 3
MaxCallCandidates == 2
\* Longest response handed to the parser of the generative reranker.
MaxOutputLen == 4
\* Longest candidate list of the calls two threads make on one instance.
MaxThreadCandidates == 2

----------------------------------------------------------------------------
(* Small helpers on sequences (Python's built-in string operations). *)

Min(a, b) == IF a <= b THEN a ELSE b

Max(a, b) == IF a >= b THEN a ELSE b

\* s[i:j] for 0-based i <= j, clipped to the string as Python clips a slice.
Slice(s, i, j) == SubSeq(s, Min(i, Len(s)) + 1, Min(j, Len(s)))

\* s[:n]
Prefix(s, n) == Slice(s, 0, n)

\* s[-n:]; Python reads s[-0:] as s[0:], the whole string.
Suffix(s, n) == IF n = 0 THEN s ELSE Slice(s, Max(Len(s) - n, 0), Len(s))

\* s[n:]
Drop(s, n) == Slice(s, n, Len(s))

\* str.find(sub): the 1-based index of the first occurrence, 0 when absent.
\* The empty string is found at the start.
Find(s, sub) ==
    LET hits == {i \in 1..(Len(s) - Len(sub) + 1) :
                    SubSeq(s, i, i + Len(sub) - 1) = sub}
    IN  IF hits = {} THEN 0 ELSE CHOOSE i \in hits : \A j \in hits : i <= j

\* sub in s
Contains(s, sub) == Find(s, sub) # 0

RECURSIVE Concat(_)
\* "".join(parts)
Concat(parts) ==
    IF parts = <<>> THEN <<>> ELSE Head(parts) \o Concat(Tail(parts))

RECURSIVE StrSplit(_, _)
\* s.split(sep) for a non-empty sep: cut at the non-overlapping occurrences
\* found left to right.
StrSplit(s, sep) ==
    LET i == Find(s, sep)
    IN  IF i = 0 THEN <<s>>
        ELSE <<SubSeq(s, 1, i - 1)>> \o StrSplit(Drop(s, i - 1 + Len(sep)), sep)

\* s.replace(old, new, 1) for a non-empty old.
ReplaceFirst(s, old, new) ==
    LET i == Find(s, old)
    IN  IF i = 0 THEN s
        ELSE SubSeq(s, 1, i - 1) \o new \o Drop(s, i - 1 + Len(old))

RECURSIVE ReplaceAll(_, _, _)
\* s.replace(old, new) for a non-empty old.
ReplaceAll(s, old, new) ==
    LET i == Find(s, old)
    IN  IF i = 0 THEN s
        ELSE SubSeq(s, 1, i - 1) \o new
                 \o ReplaceAll(Drop(s, i - 1 + Len(old)), old, new)

\* The characters str.strip() removes, among those of the model.
Whitespace == {" ", "\n", "\t"}

\* s.strip() is non-empty
StripNonEmpty(s) == \E i \in 1..Len(s) : s[i] \notin Whitespace

RECURSIVE IntToStr(_)
\* str(i) for i >= 0
IntToStr(i) ==
    LET digit == <<"0", "1", "2", "3", "4", "5", "6", "7", "8", "9">>
    IN  IF i < 10 THEN <<digit[i + 1]>>
        ELSE IntToStr(i \div 10) \o <<digit[(i % 10) + 1]>>

----------------------------------------------------------------------------
(* RecursiveSplitter *)

\* The default separator hierarchy, highest priority first.
DEFAULT_SEPARATORS ==
    << <<"\n", "\n">>, <<"\n">>, <<"u3002">>, <<"uFF01">>, <<"uFF1F">>,
       <<".">>, <<"!">>, <<"?">>, <<";">>, <<",">>, <<" ">>, <<>> >>

\* The backtick.
BT == "u0060"

\* f"__CODE_BLOCK_{i}__"
Placeholder(i) ==
    <<"_", "_", "C", "O", "D", "E", "_", "B", "L", "O", "C", "K", "_">>
        \o IntToStr(i) \o <<"_", "_">>

Fence == <<BT, BT, BT>>

RECURSIVE FindCodeBlocks(_)
\* CODE_BLOCK_PATTERN.finditer(text): the matches of the fence pattern
\* (three backticks, anything, three backticks; non-greedy) from left
\* to right, each the shortest from its opening fence, none overlapping.
FindCodeBlocks(text) ==
    LET open == Find(text, Fence)
    IN  IF open = 0 THEN <<>>
        ELSE LET rest == Drop(text, open - 1 + 3)
                 close == Find(rest, Fence)
             IN  IF close = 0 THEN <<>>
                 ELSE <<Fence \o SubSeq(rest, 1, close - 1) \o Fence>>
                          \o FindCodeBlocks(Drop(rest, close - 1 + 3))

RECURSIVE ProtectCodeBlocks(_, _, _)
\* The loop of split_text that replaces, for the i-th match, the first
\* occurrence of the text of the match by the i-th placeholder.
ProtectCodeBlocks(text_with_placeholders, code_blocks, i) ==
    IF i >= Len(code_blocks) THEN text_with_placeholders
    ELSE ProtectCodeBlocks(
             ReplaceFirst(text_with_placeholders, code_blocks[i + 1], Placeholder(i)),
             code_blocks, i + 1)

RECURSIVE RestoreChunk(_, _, _)
\* The inner loop of split_text that puts the code blocks back into a chunk.
RestoreChunk(chunk, code_blocks, i) ==
    IF i >= Len(code_blocks) THEN chunk
    ELSE RestoreChunk(ReplaceAll(chunk, Placeholder(i), code_blocks[i + 1]),
                      code_blocks, i + 1)

RECURSIVE FirstSeparatorKeepsTier(_, _, _)
\* A separator search that hands the tier it found on to the nested calls
\* (separators[i:] in place of separators[i + 1:]).
FirstSeparatorKeepsTier(text, separators, i) ==
    IF i >= Len(separators)
    THEN [separator |-> IF separators = <<>> THEN <<>>
                        ELSE separators[Len(separators)],
          new_separators |-> <<>>]
    ELSE IF separators[i + 1] = <<>>
    THEN [separator |-> <<>>, new_separators |-> <<>>]
    ELSE IF Contains(text, separators[i + 1])
    THEN [separator |-> separators[i + 1],
          new_separators |-> SubSeq(separators, i + 1, Len(separators))]
    ELSE FirstSeparatorKeepsTier(text, separators, i + 1)

\* A separator search that picks the lowest-priority separator that occurs
\* in the text.
FirstSeparatorLowest(text, separators, i) ==
    LET occurring == {j \in 1..Len(separators) :
                         /\ separators[j] # <<>>
                         /\ Contains(text, separators[j])}
        lowest == CHOOSE j \in occurring : \A k \in occurring : k <= j
    IN  IF occurring = {}
        THEN [separator |->
                  IF \/ separators = <<>>
                     \/ \E j \in 1..Len(separators) : separators[j] = <<>>
                  THEN <<>> ELSE separators[Len(separators)],
              new_separators |-> <<>>]
        ELSE [separator |-> separators[lowest],
              new_separators |->
                  SubSeq(separators, lowest + 1, Len(separators))]

RECURSIVE FirstSeparator(_, _, _)
\* The search for the first separator of the hierarchy that occurs in the
\* text; i is the 0-based index the loop is at.
FirstSeparator(text, separators, i) ==
    IF i >= Len(separators)
    THEN [separator |-> IF separators = <<>> THEN <<>>
                        ELSE separators[Len(separators)],
          new_separators |-> <<>>]
    ELSE IF separators[i + 1] = <<>>
    THEN [separator |-> <<>>, new_separators |-> <<>>]
    ELSE IF Contains(text, separators[i + 1])
    THEN [separator |-> separators[i + 1],
          new_separators |-> SubSeq(separators, i + 2, Len(separators))]
    ELSE FirstSeparator(text, separators, i + 1)

\* _split_text_with_separator that never puts the separator back.
split_text_drop_separator(self, text, separator) ==
    IF separator = <<>> THEN <<text>> ELSE StrSplit(text, separator)

\* _split_text_with_separator
split_text_with_separator(self, text, separator) ==
    IF separator = <<>> THEN <<text>>
    ELSE LET splits == StrSplit(text, separator)
         IN  IF self.keep_separator
             THEN [i \in 1..Len(splits) |->
                      IF i < Len(splits) THEN splits[i] \o separator
                      ELSE splits[i]]
             ELSE splits

\* The splits of a text on the chosen separator; "" splits into characters.
SplitsOf(self, text, separator) ==
    IF separator = <<>> THEN [i \in 1..Len(text) |-> <<text[i]>>]
    ELSE split_text_with_separator(self, text, separator)

\* len(s) <= self.chunk_size * 1.2; the product is exact in floating point
\* for the sizes of the model, so the comparison is one of integers.
WithinCeiling(self, n) == 5 * n <= 6 * self.chunk_size

\* HardSlice with the end of each slice one character too far.
HardSliceLong(split, chunk_size) ==
    [k \in 1..((Len(split) + chunk_size - 1) \div chunk_size) |->
        Slice(split, (k - 1) * chunk_size, k * chunk_size + 1)]

RECURSIVE HardSlice(_, _)
\* [split[i:i + chunk_size] for i in range(0, len(split), chunk_size)]
HardSlice(split, chunk_size) ==
    IF split = <<>> THEN <<>>
    ELSE <<Prefix(split, chunk_size)>> \o HardSlice(Drop(split, chunk_size), chunk_size)

\* OverlappedChunk that takes one character more than chunk_overlap from
\* each neighbour.
OverlappedChunkWide(self, chunks, i) ==
    LET chunk == chunks[i]
        n == Len(chunks)
        prev_overlap == IF i = 1 THEN <<>>
                        ELSE Suffix(chunks[i - 1], self.chunk_overlap + 1)
        next_overlap == IF i = n THEN <<>>
                        ELSE Prefix(chunks[i + 1], self.chunk_overlap + 1)
    IN  IF i = 1 \/ i = n
        THEN IF WithinCeiling(self, Len(prev_overlap) + Len(chunk)
                                        + Len(next_overlap))
             THEN prev_overlap \o chunk \o next_overlap ELSE chunk
        ELSE IF WithinCeiling(self, Len(prev_overlap) + Len(chunk)
                                        + Len(next_overlap))
        THEN prev_overlap \o chunk \o next_overlap
        ELSE prev_overlap \o chunk

\* One chunk of _add_overlap: chunk i (1-based) of chunks, with its overlap.
OverlappedChunk(self, chunks, i) ==
    LET chunk == chunks[i]
        n == Len(chunks)
    IN  IF i = 1
        THEN LET next_overlap == Prefix(chunks[i + 1], self.chunk_overlap)
             IN  IF WithinCeiling(self, Len(chunk) + Len(next_overlap))
                 THEN chunk \o next_overlap ELSE chunk
        ELSE IF i = n
        THEN LET prev_overlap == Suffix(chunks[i - 1], self.chunk_overlap)
             IN  IF WithinCeiling(self, Len(prev_overlap) + Len(chunk))
                 THEN prev_overlap \o chunk ELSE chunk
        ELSE LET prev_overlap == Suffix(chunks[i - 1], self.chunk_overlap)
                 next_overlap == Prefix(chunks[i + 1], self.chunk_overlap)
                 overlapped_chunk == prev_overlap \o chunk
             IN  IF WithinCeiling(self, Len(overlapped_chunk) + Len(next_overlap))
                 THEN overlapped_chunk \o next_overlap ELSE overlapped_chunk

\* _add_overlap
add_overlap(self, chunks) ==
    IF Len(chunks) <= 1 THEN chunks
    ELSE [i \in 1..Len(chunks) |-> OverlappedChunk(self, chunks, i)]

\* The end of _split_recursive: the last running chunk, then the overlap.
FinishSplits(self, good_splits, current_chunk) ==
    LET all == IF current_chunk # <<>> THEN Append(good_splits, current_chunk)
               ELSE good_splits
    IN  IF self.chunk_overlap > 0 /\ Len(all) > 1 THEN add_overlap(self, all)
        ELSE all

\* Fits with a strict comparison.
FitsStrict(self, current_chunk, split) ==
    Len(current_chunk) + Len(split) < self.chunk_size

\* The test of the merging loop: the split still fits the running chunk.
Fits(self, current_chunk, split) ==
    Len(current_chunk) + Len(split) <= self.chunk_size

RECURSIVE split_recursive(_, _, _), MergeSplits(_, _, _, _, _)
\* The merging loop of _split_recursive over the splits still to visit.
MergeSplits(self, splits, new_separators, good_splits, current_chunk) ==
    IF splits = <<>> THEN FinishSplits(self, good_splits, current_chunk)
    ELSE LET split == Head(splits)
             closed == IF current_chunk # <<>>
                       THEN Append(good_splits, current_chunk) ELSE good_splits
         IN  IF Fits(self, current_chunk, split)
             THEN MergeSplits(self, Tail(splits), new_separators, good_splits,
                              current_chunk \o split)
             ELSE IF Len(split) > self.chunk_size
             THEN IF new_separators # <<>>
                  THEN MergeSplits(self, Tail(splits), new_separators,
                           closed \o split_recursive(self, split, new_separators),
                           <<>>)
                  ELSE MergeSplits(self, Tail(splits), new_separators,
                           closed \o HardSlice(split, self.chunk_size), <<>>)
             ELSE MergeSplits(self, Tail(splits), new_separators, closed, split)

\* _split_recursive
split_recursive(self, text, separators) ==
    LET first == FirstSeparator(text, separators, 0)
    IN  MergeSplits(self, SplitsOf(self, text, first.separator),
                    first.new_separators, <<>>, <<>>)

\* TextRejected without the isinstance test.
TextRejectedEmptyOnly(value) == ~value.truthy

\* The two checks that open split_text: "not text", then the isinstance test.
TextRejected(value) == ~value.truthy \/ ~value.is_str

\* The locals and the outcome of split_text on a value.  A value is a string
\* (is_str, its characters) or another object, of which only its truth value
\* matters.
split_text(self, value) ==
    IF TextRejected(value)
    THEN [raised |-> TRUE, code_blocks |-> <<>>, text_with_placeholders |-> <<>>,
          chunks |-> <<>>, result |-> <<>>]
    ELSE LET text == value.chars
             code_blocks == FindCodeBlocks(text)
             text_with_placeholders == ProtectCodeBlocks(text, code_blocks, 0)
             chunks == split_recursive(self, text_with_placeholders, self.separators)
             restored == [k \in 1..Len(chunks) |->
                             RestoreChunk(chunks[k], code_blocks, 0)]
         IN  [raised |-> FALSE, code_blocks |-> code_blocks,
              text_with_placeholders |-> text_with_placeholders,
              chunks |-> chunks,
              result |-> SelectSeq(restored, StripNonEmpty)]

\* InitRaises that lets chunk_overlap = chunk_size through.
InitRaisesLoose(chunk_size, chunk_overlap) ==
    \/ chunk_size <= 0
    \/ chunk_overlap < 0
    \/ chunk_overlap > chunk_size

\* The checks of BaseSplitter.__init__: TRUE when it raises SplitterError.
InitRaises(chunk_size, chunk_overlap) ==
    \/ chunk_size <= 0
    \/ chunk_overlap < 0
    \/ chunk_overlap >= chunk_size

----------------------------------------------------------------------------
(* Inputs of the model. *)

\* The pieces input texts are built from.
TextTokens == {<<"a">>, <<" ">>, <<".">>, Fence}

RECURSIVE TokenSeqs(_)
TokenSeqs(n) ==
    IF n = 0 THEN {<<>>}
    ELSE LET shorter == TokenSeqs(n - 1)
         IN  shorter \cup {Append(s, t) : s \in {x \in shorter : Len(x) = n - 1},
                                          t \in TextTokens}

\* The input texts: every concatenation of at most MaxTokens tokens.
Texts == {Concat(s) : s \in TokenSeqs(MaxTokens)}

StrValue(chars) == [is_str |-> TRUE, truthy |-> chars # <<>>, chars |-> chars]

OtherValue(truthy) == [is_str |-> FALSE, truthy |-> truthy, chars |-> <<>>]

\* What a caller may hand to split_text.
Values == {StrValue(t) : t \in Texts} \cup {OtherValue(b) : b \in BOOLEAN}

\* The (separators, keep_separator) pairs a splitter is built with.
Hierarchies ==
    {<<DEFAULT_SEPARATORS, TRUE>>, <<DEFAULT_SEPARATORS, FALSE>>,
     << <<>>, TRUE>>, << << <<".">>, <<" ">> >>, TRUE>>,
     << << <<".">>, <<" ">> >>, FALSE>>}

NoSplitter ==
    [exists |-> FALSE, chunk_size |-> 0, chunk_overlap |-> 0,
     separators |-> <<>>, keep_separator |-> TRUE]

NoCall ==
    [made |-> FALSE, value |-> OtherValue(FALSE), raised |-> FALSE,
     code_blocks |-> <<>>, text_with_placeholders |-> <<>>, chunks |-> <<>>,
     result |-> <<>>]

\* No list of chunks was stitched yet.
NoStitch == [made |-> FALSE, chunks |-> <<>>, result |-> <<>>]

NoSteps ==
    [phase |-> "idle", value |-> OtherValue(FALSE), raised |-> FALSE,
     code_blocks |-> <<>>, chunks |-> <<>>, result |-> <<>>, count |-> 0]

NoCtor == [made |-> FALSE, chunk_size |-> 0, chunk_overlap |-> 0, raised |-> FALSE]

\* No reranker has been built.  last_error is "" for None.
NoReranker ==
    [exists |-> FALSE, ctor_raised |-> FALSE, backend |-> "",
     timeout |-> 0, batch_size |-> 0, fallback_on_error |-> FALSE,
     max_retries |-> 0, last_error |-> "", timeout_occurred |-> FALSE]

\* A scorer that is never invoked.
NoScorer == [scores |-> <<>>, fail_at |-> 0, mode |-> "raise"]

\* No call has been made on the reranker.  raised is "" for a call that
\* returned; an optional argument is <<>> for None and <<v>> for the value v.
\* A thread that has made no call.  pc is the statement of rerank the thread
\* stands before, k the batch of the scoring loop, error the exception on
\* its way to the except clause of _score_with_timeout, failed whether a
\* scorer invocation of the call failed, and seen what get_last_error() and
\* did_timeout_occur() gave the thread when its call ended.
NoThread ==
    [pc |-> "idle", candidates |-> <<>>, top_k |-> <<>>, scorer |-> NoScorer,
     k |-> 0, error |-> "", failed |-> FALSE, raised |-> "", results |-> <<>>,
     seen |-> [last_error |-> "", timeout_occurred |-> FALSE]]

Threads == {1, 2}

\* overlapped: a call began while the call of the other thread was running.
NoThreads == [call |-> [t \in Threads |-> NoThread], overlapped |-> FALSE]

\* An empty _registry dict: no name is mapped to a class.
EmptyRegistry == [name \in {} |-> ""]

\* No call on a factory was made yet.  resolved is the class the lookup
\* found (<<>> when it found none), made the class of the instance the
\* call returned, result the value of is_registered, before the registry
\* of the called factory when the call began.
NoFactoryCall ==
    [factory |-> "", op |-> "", name |-> <<>>, class |-> "",
     raised |-> "", resolved |-> <<>>, made |-> <<>>, result |-> <<>>,
     before |-> EmptyRegistry]

\* RerankerFactory._registry and SplitterFactory._registry as the class
\* bodies leave them, and registered, the register calls that succeeded
\* since the registry was last cleared, as <<name as written, class>>.
NoFactory ==
    [reranker |-> EmptyRegistry, splitter |-> EmptyRegistry,
     registered |-> [reranker |-> {}, splitter |-> {}],
     last |-> NoFactoryCall]

\* after is the candidate list of the caller as the call left it; calls
\* counts the rerank calls made on the instance, and before is what
\* get_last_error() and did_timeout_occur() gave when the last of them began.
NoRerank ==
    [made |-> FALSE, op |-> "", query |-> "", candidates |-> <<>>,
     top_k |-> <<>>,
     scores |-> <<>>, original_ranks |-> <<>>, scorer |-> NoScorer,
     chat |-> <<>>, raised |-> "", results |-> <<>>, scorer_calls |-> <<>>,
     chat_calls |-> <<>>, output |-> <<>>, num_candidates |-> 0, calls |-> 0,
     after |-> <<>>,
     before |-> [last_error |-> "", timeout_occurred |-> FALSE]]

----------------------------------------------------------------------------
(* The splitter as a state machine: one use of the class, which builds an   *)
(* instance and then calls it once (an instance keeps nothing of a call).   *)

\* RecursiveSplitter(chunk_size, chunk_overlap, separators, keep_separator)
Construct(chunk_size, chunk_overlap, separators, keep_separator) ==
    /\ ~ctor.made
    /\ ctor' = [made |-> TRUE, chunk_size |-> chunk_size,
                chunk_overlap |-> chunk_overlap,
                raised |-> InitRaises(chunk_size, chunk_overlap)]
    /\ splitter' = IF InitRaises(chunk_size, chunk_overlap) THEN NoSplitter
                   ELSE [exists |-> TRUE, chunk_size |-> chunk_size,
                         chunk_overlap |-> chunk_overlap,
                         separators |-> separators,
                         keep_separator |-> keep_separator]
    /\ call' = NoCall
    /\ UNCHANGED <<stepVars, rerankVars, threads, factory, stitch>>

\* splitter.split_text(value)
SplitText(value) ==
    /\ splitter.exists
    /\ ~call.made
    /\ LET out == split_text(splitter, value)
       IN  call' = [made |-> TRUE, value |-> value, raised |-> out.raised,
                    code_blocks |-> out.code_blocks,
                    text_with_placeholders |-> out.text_with_placeholders,
                    chunks |-> out.chunks, result |-> out.result]
    /\ UNCHANGED <<splitter, ctor, stepVars, rerankVars, threads, factory, stitch>>

Init ==
    /\ splitter = NoSplitter
    /\ ctor = NoCtor
    /\ call = NoCall
    /\ frames = <<>>
    /\ steps = NoSteps
    /\ reranker = NoReranker
    /\ rerank = NoRerank
    /\ threads = NoThreads
    /\ factory = NoFactory
    /\ stitch = NoStitch

Next ==
    \/ \E chunk_size \in -1..MaxChunkSize, chunk_overlap \in -1..MaxChunkSize,
          h \in Hierarchies :
          Construct(chunk_size, chunk_overlap, h[1], h[2])
    \/ \E value \in Values : SplitText(value)

Spec == Init /\ [][Next]_vars

----------------------------------------------------------------------------
(* split_text step by step: one action per iteration of the merging loop,  *)
(* per call of _split_recursive and per return, with the calls in progress *)
(* on a stack (the innermost call last).                                   *)

\* The input texts of the step-wise specification.
StepValues ==
    {StrValue(Concat(s)) : s \in TokenSeqs(MaxStepTokens)}
        \cup {OtherValue(b) : b \in BOOLEAN}

\* The locals of a _split_recursive call when its merging loop starts.
NewFrame(self, text, separators) ==
    LET first == FirstSeparator(text, separators, 0)
    IN  [text |-> text, separators |-> separators,
         separator |-> first.separator,
         new_separators |-> first.new_separators,
         splits |-> SplitsOf(self, text, first.separator),
         good_splits |-> <<>>, current_chunk |-> <<>>]

Top == frames[Len(frames)]

SetTop(frame) == [frames EXCEPT ![Len(frames)] = frame]

\* good_splits once a non-empty running chunk has been appended to it.
Closed(frame) ==
    IF frame.current_chunk # <<>>
    THEN Append(frame.good_splits, frame.current_chunk) ELSE frame.good_splits

InLoop == steps.phase = "running" /\ frames # <<>> /\ Top.splits # <<>>

\* The branch the merging loop takes on the split it is at.
CanMerge == InLoop /\ Fits(splitter, Top.current_chunk, Head(Top.splits))

CanStartChunk ==
    /\ InLoop
    /\ ~Fits(splitter, Top.current_chunk, Head(Top.splits))
    /\ Len(Head(Top.splits)) <= splitter.chunk_size

CanRecurse ==
    /\ InLoop
    /\ ~Fits(splitter, Top.current_chunk, Head(Top.splits))
    /\ Len(Head(Top.splits)) > splitter.chunk_size
    /\ Top.new_separators # <<>>

CanHardSlice ==
    /\ InLoop
    /\ ~Fits(splitter, Top.current_chunk, Head(Top.splits))
    /\ Len(Head(Top.splits)) > splitter.chunk_size
    /\ Top.new_separators = <<>>

\* The loop of the innermost call is over.
CanReturn == steps.phase = "running" /\ frames # <<>> /\ Top.splits = <<>>

\* One more step of the call is counted, up to MaxSteps.
Tick == [steps EXCEPT !.count = @ + 1]

\* split_text is entered: the checks, the placeholders, the outermost call.
StepCall(value) ==
    /\ splitter.exists
    /\ steps.phase = "idle"
    /\ IF TextRejected(value)
       THEN /\ steps' = [phase |-> "done", value |-> value, raised |-> TRUE,
                         code_blocks |-> <<>>, chunks |-> <<>>, result |-> <<>>,
                         count |-> 0]
            /\ frames' = <<>>
       ELSE LET code_blocks == FindCodeBlocks(value.chars)
            IN  /\ steps' = [phase |-> "running", value |-> value,
                             raised |-> FALSE, code_blocks |-> code_blocks,
                             chunks |-> <<>>, result |-> <<>>, count |-> 0]
                /\ frames' = <<NewFrame(splitter,
                                   ProtectCodeBlocks(value.chars, code_blocks, 0),
                                   splitter.separators)>>
    /\ UNCHANGED <<splitVars, rerankVars, threads, factory, stitch>>

\* An iteration whose split fits the running chunk.
StepMerge ==
    /\ CanMerge
    /\ steps.count < MaxSteps
    /\ frames' = SetTop([Top EXCEPT !.splits = Tail(@),
                                    !.current_chunk = @ \o Head(Top.splits)])
    /\ steps' = Tick
    /\ UNCHANGED <<splitVars, rerankVars, threads, factory, stitch>>

\* An iteration whose split does not fit and starts the next running chunk.
StepStartChunk ==
    /\ CanStartChunk
    /\ steps.count < MaxSteps
    /\ frames' = SetTop([Top EXCEPT !.splits = Tail(@),
                                    !.good_splits = Closed(Top),
                                    !.current_chunk = Head(Top.splits)])
    /\ steps' = Tick
    /\ UNCHANGED <<splitVars, rerankVars, threads, factory, stitch>>

\* An iteration whose split is too long and is handed, with the tiers that
\* remain, to a nested _split_recursive call.
StepRecurse ==
    /\ CanRecurse
    /\ steps.count < MaxSteps
    /\ Len(frames) < MaxDepth
    /\ frames' = Append(SetTop([Top EXCEPT !.splits = Tail(@),
                                           !.good_splits = Closed(Top)]),
                        NewFrame(splitter, Head(Top.splits), Top.new_separators))
    /\ steps' = Tick
    /\ UNCHANGED <<splitVars, rerankVars, threads, factory, stitch>>

\* An iteration whose split is too long when no tier remains: hard slices.
StepHardSlice ==
    /\ CanHardSlice
    /\ steps.count < MaxSteps
    /\ frames' = SetTop([Top EXCEPT
                            !.splits = Tail(@),
                            !.good_splits =
                                Closed(Top) \o HardSlice(Head(Top.splits),
                                                         splitter.chunk_size),
                            !.current_chunk = <<>>])
    /\ steps' = Tick
    /\ UNCHANGED <<splitVars, rerankVars, threads, factory, stitch>>

\* The innermost call returns: to the call that made it, or to split_text,
\* which restores the code blocks and drops the blank chunks.
StepReturn ==
    /\ CanReturn
    /\ steps.count < MaxSteps
    /\ LET final_chunks == FinishSplits(splitter, Top.good_splits, Top.current_chunk)
           n == Len(frames)
       IN  IF n = 1
           THEN /\ frames' = <<>>
                /\ steps' = [Tick EXCEPT
                       !.phase = "done",
                       !.chunks = final_chunks,
                       !.result = SelectSeq(
                           [k \in 1..Len(final_chunks) |->
                               RestoreChunk(final_chunks[k], steps.code_blocks, 0)],
                           StripNonEmpty)]
           ELSE /\ frames' = [SubSeq(frames, 1, n - 1) EXCEPT
                                 ![n - 1] = [@ EXCEPT
                                     !.good_splits = @ \o final_chunks,
                                     !.current_chunk = <<>>]]
                /\ steps' = Tick
    /\ UNCHANGED <<splitVars, rerankVars, threads, factory, stitch>>

NextSteps ==
    \/ \E chunk_size \in -1..MaxChunkSize, chunk_overlap \in -1..MaxChunkSize,
          h \in Hierarchies :
          Construct(chunk_size, chunk_overlap, h[1], h[2])
    \/ \E value \in StepValues : StepCall(value)
    \/ StepMerge
    \/ StepStartChunk
    \/ StepRecurse
    \/ StepHardSlice
    \/ StepReturn

SpecSteps == Init /\ [][NextSteps]_vars

----------------------------------------------------------------------------
(* The end of _split_recursive on its own: a list of merged chunks is      *)
(* stitched with overlap by a splitter of any valid sizes.                 *)

\* The characters the chunks are made of.
ChunkChars == {"a", "b"}

RECURSIVE ChunkStrings(_)
\* The non-empty chunks of at most n characters.
ChunkStrings(n) ==
    IF n = 0 THEN {}
    ELSE ChunkStrings(n - 1) \cup [1..n -> ChunkChars]

RECURSIVE ChunkListsOf(_)
\* The lists of at most n chunks.
ChunkListsOf(n) ==
    IF n = 0 THEN {<<>>}
    ELSE ChunkListsOf(n - 1) \cup [1..n -> ChunkStrings(MaxChunkLen)]

\* good_splits when the merging loop is over.
ChunkLists == ChunkListsOf(MaxChunks)

\* The merging loop of a call ended with these good_splits: the overlap is
\* added.  A chunk is never empty, and one that a nested call returned is
\* at most chunk_size + chunk_overlap characters long.
StitchChunks ==
    /\ splitter.exists
    /\ ~stitch.made
    /\ \E chunks \in ChunkLists :
          /\ \A i \in 1..Len(chunks) :
                Len(chunks[i]) <= splitter.chunk_size + splitter.chunk_overlap
          /\ stitch' = [made |-> TRUE, chunks |-> chunks,
                        result |-> FinishSplits(splitter, chunks, <<>>)]
    /\ UNCHANGED <<splitVars, stepVars, rerankVars, threads, factory>>

NextOverlap ==
    \/ \E chunk_size \in -1..MaxChunkSize, chunk_overlap \in -1..MaxChunkSize :
          Construct(chunk_size, chunk_overlap, DEFAULT_SEPARATORS, TRUE)
    \/ StitchChunks

SpecOverlap == Init /\ [][NextOverlap]_vars

----------------------------------------------------------------------------
(* Rerankers.  A score is a number counted in tenths: 9 is 0.9, 30 is 3.   *)
(* An exception is named by its class; "" is no exception.                 *)

\* The default timeout of the scored reranker, in seconds.
DEFAULT_TIMEOUT == 30

\* A validation that checks only that the list is not empty.
validate_not_empty(candidates) == candidates = <<>>

\* validate_candidates raises (TRUE) or returns (FALSE).
validate_candidates(candidates) ==
    \/ candidates = <<>>
    \/ \E i \in 1..Len(candidates) : ~candidates[i].is_candidate
    \/ Cardinality({candidates[i].id : i \in 1..Len(candidates)})
           # Len(candidates)

\* RerankResult(id, text, score, original_rank, new_rank, metadata) built
\* from a candidate.
RerankResult(candidate, score, original_rank, new_rank) ==
    [id |-> candidate.id, text |-> candidate.text, score |-> score,
     original_rank |-> original_rank, new_rank |-> new_rank,
     metadata |-> candidate.metadata]

\* A sort that leaves the results as they were built.
KeepOrder(results) == results

RECURSIVE SortTiesReversed(_)
\* A descending sort that puts equal scores in the reverse of the order they
\* were built in (sorted ascending, then reversed).
SortTiesReversed(results) ==
    IF results = <<>> THEN <<>>
    ELSE LET first == Head(results)
             rest == SortTiesReversed(Tail(results))
             k == Cardinality({i \in 1..Len(rest) : rest[i].score >= first.score})
         IN  SubSeq(rest, 1, k) \o <<first>> \o SubSeq(rest, k + 1, Len(rest))

RECURSIVE SortByScore(_)
\* results.sort(key=score, reverse=True): descending, and stable, so equal
\* scores keep the order they were built in.
SortByScore(results) ==
    IF results = <<>> THEN <<>>
    ELSE LET first == Head(results)
             rest == SortByScore(Tail(results))
             k == Cardinality({i \in 1..Len(rest) : rest[i].score > first.score})
         IN  SubSeq(rest, 1, k) \o <<first>> \o SubSeq(rest, k + 1, Len(rest))

\* A create_results that orders the results by ascending score.
create_results_ascending(candidates, scores, original_ranks) ==
    IF Len(candidates) # Len(scores)
    THEN [raised |-> "RerankerError", results |-> <<>>,
          candidates |-> candidates]
    ELSE LET n == Len(candidates)
             sorted == SortByScore(
                 [i \in 1..n |->
                     RerankResult(candidates[i], scores[i], i - 1, -1)])
         IN  [raised |-> "",
              results |-> [k \in 1..n |->
                              [sorted[n + 1 - k] EXCEPT !.new_rank = k - 1]],
              candidates |-> candidates]

\* A create_results that sorts the list it was handed along with the results
\* (candidates.sort by the new scores).
create_results_in_place(candidates, scores, original_ranks) ==
    IF Len(candidates) # Len(scores)
    THEN [raised |-> "RerankerError", results |-> <<>>,
          candidates |-> candidates]
    ELSE LET n == Len(candidates)
             sorted == SortByScore(
                 [i \in 1..n |->
                     [score |-> scores[i], candidate |-> candidates[i],
                      rank |-> i - 1]])
         IN  [raised |-> "",
              results |-> [k \in 1..n |->
                              RerankResult(sorted[k].candidate, sorted[k].score,
                                           sorted[k].rank, k - 1)],
              candidates |-> [k \in 1..n |-> sorted[k].candidate]]

\* BaseReranker.create_results.  original_ranks is <<>> for None.  A list of
\* original ranks shorter than the candidates ends in an IndexError.  The
\* results are a list of its own, built from what is read of the candidates:
\* the sort and the new_rank stores act on it, and candidates is the list
\* of the caller as the call leaves it.
create_results(candidates, scores, original_ranks) ==
    IF Len(candidates) # Len(scores)
    THEN [raised |-> "RerankerError", results |-> <<>>,
          candidates |-> candidates]
    ELSE LET n == Len(candidates)
             ranks == IF original_ranks = <<>> THEN [i \in 1..n |-> i - 1]
                      ELSE original_ranks[1]
         IN  IF Len(ranks) < n
             THEN [raised |-> "IndexError", results |-> <<>>,
                   candidates |-> candidates]
             ELSE LET results == SortByScore(
                          [i \in 1..n |->
                              RerankResult(candidates[i], scores[i], ranks[i], -1)])
                  IN  [raised |-> "",
                       results |-> [k \in 1..n |->
                                       [results[k] EXCEPT !.new_rank = k - 1]],
                       candidates |-> candidates]

\* A top_k limit applied whenever top_k is given, its sign unchecked.
TopKUnchecked(results, top_k) ==
    IF top_k = <<>> THEN results
    ELSE IF top_k[1] >= 0 THEN Prefix(results, top_k[1])
    ELSE Prefix(results, Max(0, Len(results) + top_k[1]))

\* A top_k limit that keeps the last top_k results (results[-top_k:]).
TopKFromEnd(results, top_k) ==
    IF top_k # <<>> /\ top_k[1] > 0 THEN Suffix(results, top_k[1])
    ELSE results

\* The top_k limit: results[:top_k] when top_k is given and positive.
TopK(results, top_k) ==
    IF top_k # <<>> /\ top_k[1] > 0 THEN Prefix(results, top_k[1])
    ELSE results

\* c.score if c.score is not None else 0.0
OwnScore(candidate) ==
    IF candidate.score # <<>> THEN candidate.score[1] ELSE 0

\* Results built from the own scores by the shared assembly, which sorts.
SortedOwnScoreResults(candidates) ==
    create_results(candidates,
                   [i \in 1..Len(candidates) |-> OwnScore(candidates[i])],
                   <<>>).results

\* The results NoneReranker builds: input order, own scores.
InputOrderResults(candidates) ==
    [i \in 1..Len(candidates) |->
        RerankResult(candidates[i], OwnScore(candidates[i]), i - 1, i - 1)]

\* NoneReranker.rerank; the query is not read.
NoneReranker_rerank(query, candidates, top_k) ==
    IF validate_candidates(candidates)
    THEN [raised |-> "RerankerError", results |-> <<>>,
          candidates |-> candidates]
    ELSE [raised |-> "", results |-> TopK(InputOrderResults(candidates), top_k),
          candidates |-> candidates]

\* A scoring loop that hands all texts to the scorer at once.
OneBatch(texts, batch_size) == IF batch_size < 0 THEN <<>> ELSE <<texts>>

\* The batches of the scoring loop: texts[i:i + batch_size] for i in
\* range(0, len(texts), batch_size).  A negative step gives an empty range.
Batches(texts, batch_size) ==
    IF batch_size < 0 THEN <<>>
    ELSE [k \in 1..((Len(texts) + batch_size - 1) \div batch_size) |->
             Slice(texts, (k - 1) * batch_size, k * batch_size)]

\* What the injected scorer does in its k-th invocation of a call, on the
\* batch that starts at candidate start: it returns the scores it holds for
\* the batch, except that invocation fail_at raises, returns one score too
\* few, or returns after more than the timeout.
Scorer(self, scorer, k, start, batch_texts) ==
    LET mine == Slice(scorer.scores, start, start + Len(batch_texts))
        fails == k = scorer.fail_at
    IN  [raises |-> fails /\ scorer.mode = "raise",
         scores |-> IF fails /\ scorer.mode = "count"
                    THEN Prefix(mine, Len(mine) - 1) ELSE mine,
         elapsed |-> IF fails /\ scorer.mode = "timeout"
                     THEN self.timeout + 1 ELSE self.timeout]

\* A _score_with_timeout that checks neither the elapsed time nor the number
\* of scores.
score_without_checks(self, texts, invocation) ==
    IF invocation.raises
    THEN [raised |-> TRUE, scores |-> <<>>, last_error |-> "Exception",
          timeout_occurred |-> FALSE]
    ELSE [raised |-> FALSE, scores |-> invocation.scores, last_error |-> "",
          timeout_occurred |-> FALSE]

\* A _score_with_timeout that raises on a timeout without setting the flag.
score_timeout_unflagged(self, texts, invocation) ==
    IF invocation.raises
    THEN [raised |-> TRUE, scores |-> <<>>, last_error |-> "Exception",
          timeout_occurred |-> FALSE]
    ELSE IF invocation.elapsed > self.timeout
            \/ Len(invocation.scores) # Len(texts)
    THEN [raised |-> TRUE, scores |-> <<>>, last_error |-> "RerankerError",
          timeout_occurred |-> FALSE]
    ELSE [raised |-> FALSE, scores |-> invocation.scores, last_error |-> "",
          timeout_occurred |-> FALSE]

\* CrossEncoderReranker._score_with_timeout, given what the scorer did.
score_with_timeout(self, texts, invocation) ==
    IF invocation.raises
    THEN [raised |-> TRUE, scores |-> <<>>, last_error |-> "Exception",
          timeout_occurred |-> FALSE]
    ELSE IF invocation.elapsed > self.timeout
    THEN [raised |-> TRUE, scores |-> <<>>, last_error |-> "RerankerError",
          timeout_occurred |-> TRUE]
    ELSE IF Len(invocation.scores) # Len(texts)
    THEN [raised |-> TRUE, scores |-> <<>>, last_error |-> "RerankerError",
          timeout_occurred |-> FALSE]
    ELSE [raised |-> FALSE, scores |-> invocation.scores, last_error |-> "",
          timeout_occurred |-> FALSE]

RECURSIVE ScoreAllBatches(_, _, _, _, _, _)
\* A scoring loop that goes on to the remaining batches after a failure and
\* reports the failure at the end.
ScoreAllBatches(self, scorer, batches, k, all_scores, scorer_calls) ==
    IF k > Len(batches)
    THEN [raised |-> scorer.fail_at \in 1..Len(batches),
          all_scores |-> all_scores, scorer_calls |-> scorer_calls,
          last_error |-> IF scorer.fail_at \in 1..Len(batches)
                         THEN "RerankerError" ELSE "",
          timeout_occurred |-> FALSE]
    ELSE LET out == score_with_timeout(self, batches[k],
                        Scorer(self, scorer, k, (k - 1) * self.batch_size,
                               batches[k]))
         IN  ScoreAllBatches(self, scorer, batches, k + 1,
                             all_scores \o out.scores,
                             Append(scorer_calls, batches[k]))

RECURSIVE ScoreBatches(_, _, _, _, _, _)
\* The scoring loop of CrossEncoderReranker.rerank from its k-th batch on;
\* the first failure ends it.
ScoreBatches(self, scorer, batches, k, all_scores, scorer_calls) ==
    IF k > Len(batches)
    THEN [raised |-> FALSE, all_scores |-> all_scores,
          scorer_calls |-> scorer_calls, last_error |-> "",
          timeout_occurred |-> FALSE]
    ELSE LET out == score_with_timeout(self, batches[k],
                        Scorer(self, scorer, k, (k - 1) * self.batch_size,
                               batches[k]))
         IN  IF out.raised
             THEN [raised |-> TRUE, all_scores |-> all_scores,
                   scorer_calls |-> Append(scorer_calls, batches[k]),
                   last_error |-> out.last_error,
                   timeout_occurred |-> out.timeout_occurred]
             ELSE ScoreBatches(self, scorer, batches, k + 1,
                               all_scores \o out.scores,
                               Append(scorer_calls, batches[k]))

\* The results of the fallback path: input order, own scores.
FallbackResults(candidates) ==
    [i \in 1..Len(candidates) |->
        RerankResult(candidates[i], OwnScore(candidates[i]), i - 1, i - 1)]

\* A rerank that reads the timeout flag an earlier call left: after a timeout
\* it scores nothing and answers with the fallback results.
rerank_skips_after_timeout(self, candidates, top_k, scorer) ==
    IF validate_candidates(candidates)
    THEN [raised |-> "RerankerError", results |-> <<>>,
          last_error |-> self.last_error,
          timeout_occurred |-> self.timeout_occurred, scorer_calls |-> <<>>,
          candidates |-> candidates]
    ELSE IF self.timeout_occurred
    THEN [raised |-> "", results |-> TopK(FallbackResults(candidates), top_k),
          last_error |-> "", timeout_occurred |-> FALSE,
          scorer_calls |-> <<>>, candidates |-> candidates]
    ELSE IF self.batch_size = 0
    THEN [raised |-> "ValueError", results |-> <<>>, last_error |-> "",
          timeout_occurred |-> FALSE, scorer_calls |-> <<>>,
          candidates |-> candidates]
    ELSE LET texts == [i \in 1..Len(candidates) |-> candidates[i].text]
             scored == ScoreBatches(self, scorer, Batches(texts, self.batch_size),
                                    1, <<>>, <<>>)
             made == IF scored.raised
                     THEN [raised |-> "RerankerError", results |-> <<>>,
                           candidates |-> candidates]
                     ELSE create_results(candidates, scored.all_scores, <<>>)
         IN  [raised |-> IF made.raised = "" \/ self.fallback_on_error THEN ""
                         ELSE "RerankerError",
              results |-> IF made.raised = "" THEN TopK(made.results, top_k)
                          ELSE IF self.fallback_on_error
                          THEN TopK(FallbackResults(candidates), top_k)
                          ELSE <<>>,
              last_error |-> scored.last_error,
              timeout_occurred |-> scored.timeout_occurred,
              scorer_calls |-> scored.scorer_calls,
              candidates |-> made.candidates]

\* CrossEncoderReranker.rerank.  Validation comes before the reset of the
\* diagnostics; a batch_size of 0 ends the call in the ValueError of range.
CrossEncoderReranker_rerank(self, candidates, top_k, scorer) ==
    IF validate_candidates(candidates)
    THEN [raised |-> "RerankerError", results |-> <<>>,
          last_error |-> self.last_error,
          timeout_occurred |-> self.timeout_occurred, scorer_calls |-> <<>>,
          candidates |-> candidates]
    ELSE IF self.batch_size = 0
    THEN [raised |-> "ValueError", results |-> <<>>, last_error |-> "",
          timeout_occurred |-> FALSE, scorer_calls |-> <<>>,
          candidates |-> candidates]
    ELSE LET texts == [i \in 1..Len(candidates) |-> candidates[i].text]
             scored == ScoreBatches(self, scorer, Batches(texts, self.batch_size),
                                    1, <<>>, <<>>)
             made == IF scored.raised
                     THEN [raised |-> "RerankerError", results |-> <<>>,
                           candidates |-> candidates]
                     ELSE create_results(candidates, scored.all_scores, <<>>)
             results == IF made.raised = "" THEN TopK(made.results, top_k)
                        ELSE IF self.fallback_on_error
                        THEN TopK(FallbackResults(made.candidates), top_k)
                        ELSE <<>>
         IN  [raised |-> IF made.raised = "" \/ self.fallback_on_error THEN ""
                         ELSE "RerankerError",
              results |-> results, last_error |-> scored.last_error,
              timeout_occurred |-> scored.timeout_occurred,
              scorer_calls |-> scored.scorer_calls,
              candidates |-> made.candidates]

\* LLMReranker._format_prompt, for a template that holds nothing but its two
\* placeholders: the numbered passages, each the pair of its number and text.
format_prompt(candidates) ==
    [i \in 1..Len(candidates) |-> <<i, candidates[i].text>>]

IsDigit(c) == c \in {"0", "1", "2", "3", "4", "5", "6", "7", "8", "9"}

\* int(c) for a digit c
DigitValue(c) == CHOOSE d \in 0..9 : IntToStr(d) = <<c>>

RECURSIVE LStrip(_)
LStrip(s) ==
    IF s # <<>> /\ Head(s) \in Whitespace THEN LStrip(Tail(s)) ELSE s

RECURSIVE RStrip(_)
RStrip(s) ==
    IF s # <<>> /\ s[Len(s)] \in Whitespace
    THEN RStrip(SubSeq(s, 1, Len(s) - 1)) ELSE s

\* s.strip()
Strip(s) == RStrip(LStrip(s))

RECURSIVE DigitRun(_)
\* The longest prefix of s made of digits.
DigitRun(s) ==
    IF s # <<>> /\ IsDigit(Head(s)) THEN <<Head(s)>> \o DigitRun(Tail(s))
    ELSE <<>>

\* re.search(r"(\d+\.?\d*)", line): <<>> when nothing matches, else the
\* leftmost match: the digits from the first digit on, a dot that follows
\* them, and the digits that follow the dot.
FirstNumber(line) ==
    LET starts == {i \in 1..Len(line) : IsDigit(line[i])}
    IN  IF starts = {} THEN <<>>
        ELSE LET i == CHOOSE s \in starts : \A t \in starts : s <= t
                 whole == DigitRun(Drop(line, i - 1))
                 after == Drop(line, i - 1 + Len(whole))
                 frac == IF after # <<>> /\ Head(after) = "."
                         THEN DigitRun(Tail(after)) ELSE <<>>
             IN  <<[whole |-> whole, frac |-> frac]>>

RECURSIVE DecimalValue(_)
\* int(digits)
DecimalValue(digits) ==
    IF digits = <<>> THEN 0
    ELSE 10 * DecimalValue(SubSeq(digits, 1, Len(digits) - 1))
             + DigitValue(digits[Len(digits)])

\* float(match.group(1)), in tenths.  The responses of the model hold no
\* number with more than one decimal digit.
Float(number) ==
    10 * DecimalValue(number.whole)
        + (IF number.frac = <<>> THEN 0 ELSE DigitValue(number.frac[1]))

RECURSIVE LineScoresReversed(_)
\* A loop that puts each new score in front of the scores collected so far.
LineScoresReversed(lines) ==
    IF lines = <<>> THEN <<>>
    ELSE LET line == Strip(Head(lines))
             match == FirstNumber(line)
         IN  LineScoresReversed(Tail(lines))
                 \o (IF line = <<>> \/ match = <<>> THEN <<>>
                     ELSE <<Float(match[1])>>)

RECURSIVE LineScores(_)
\* The loop of _parse_scores over the lines: one score for each line that is
\* not blank and holds a number.
LineScores(lines) ==
    IF lines = <<>> THEN <<>>
    ELSE LET line == Strip(Head(lines))
             match == FirstNumber(line)
         IN  (IF line = <<>> \/ match = <<>> THEN <<>>
              ELSE <<Float(match[1])>>) \o LineScores(Tail(lines))

\* LLMReranker._parse_scores
parse_scores(output, num_candidates) ==
    LET scores == LineScores(StrSplit(Strip(output), <<"\n">>))
    IN  [raised |-> Len(scores) # num_candidates, scores |-> scores]

\* A rerank that makes one attempt and never retries.
AttemptOnce(self, candidates, top_k, chat, attempt) ==
    IF attempt > self.max_retries
    THEN [raised |-> "RerankerError", results |-> <<>>, calls |-> attempt,
          candidates |-> candidates]
    ELSE LET reply == chat[attempt + 1]
             parsed == IF reply.kind = "content"
                       THEN parse_scores(reply.content, Len(candidates))
                       ELSE [raised |-> TRUE, scores |-> <<>>]
         IN  IF reply.kind = "Exception"
             THEN [raised |-> "Exception", results |-> <<>>,
                   calls |-> attempt + 1, candidates |-> candidates]
             ELSE IF parsed.raised
             THEN [raised |-> "RerankerError", results |-> <<>>,
                   calls |-> attempt + 1, candidates |-> candidates]
             ELSE [raised |-> "",
                   results |-> TopK(create_results(candidates, parsed.scores,
                                                   <<>>).results, top_k),
                   calls |-> attempt + 1, candidates |-> candidates]

RECURSIVE AttemptsRetryAny(_, _, _, _, _)
\* A retry loop with "except Exception": every exception of the chat
\* collaborator is retried and ends in RerankerError.
AttemptsRetryAny(self, candidates, top_k, chat, attempt) ==
    IF attempt > self.max_retries
    THEN [raised |-> "RerankerError", results |-> <<>>, calls |-> attempt,
          candidates |-> candidates]
    ELSE LET reply == chat[attempt + 1]
             parsed == IF reply.kind = "content"
                       THEN parse_scores(reply.content, Len(candidates))
                       ELSE [raised |-> TRUE, scores |-> <<>>]
         IN  IF ~parsed.raised
             THEN [raised |-> "",
                   results |-> TopK(create_results(candidates, parsed.scores,
                                                   <<>>).results, top_k),
                   calls |-> attempt + 1, candidates |-> candidates]
             ELSE IF attempt < self.max_retries
             THEN AttemptsRetryAny(self, candidates, top_k, chat, attempt + 1)
             ELSE [raised |-> "RerankerError", results |-> <<>>,
                   calls |-> attempt + 1, candidates |-> candidates]

RECURSIVE Attempts(_, _, _, _, _)
\* The retry loop of LLMReranker.rerank from the given attempt (0-based) on.
\* chat[k] is what the chat collaborator does in its k-th call: it returns a
\* content, raises LLMError, or raises an exception of another class.  calls
\* is the number of calls made.
Attempts(self, candidates, top_k, chat, attempt) ==
    IF attempt > self.max_retries
    THEN [raised |-> "RerankerError", results |-> <<>>, calls |-> attempt,
          candidates |-> candidates]
    ELSE LET reply == chat[attempt + 1]
             parsed == IF reply.kind = "content"
                       THEN parse_scores(reply.content, Len(candidates))
                       ELSE [raised |-> TRUE, scores |-> <<>>]
             made == IF parsed.raised
                     THEN [raised |-> "RerankerError", results |-> <<>>,
                           candidates |-> candidates]
                     ELSE create_results(candidates, parsed.scores, <<>>)
         IN  IF reply.kind = "Exception"
             THEN [raised |-> "Exception", results |-> <<>>,
                   calls |-> attempt + 1, candidates |-> candidates]
             ELSE IF made.raised = ""
             THEN [raised |-> "", results |-> TopK(made.results, top_k),
                   calls |-> attempt + 1, candidates |-> made.candidates]
             ELSE IF attempt < self.max_retries
             THEN Attempts(self, candidates, top_k, chat, attempt + 1)
             ELSE [raised |-> "RerankerError", results |-> <<>>,
                   calls |-> attempt + 1, candidates |-> candidates]

\* LLMReranker.rerank
LLMReranker_rerank(self, candidates, top_k, chat) ==
    IF validate_candidates(candidates)
    THEN [raised |-> "RerankerError", results |-> <<>>, calls |-> 0,
          candidates |-> candidates]
    ELSE Attempts(self, candidates, top_k, chat, 0)

----------------------------------------------------------------------------
(* The inputs of the reranker calls. *)

\* Candidates: three ids, a second candidate of id "a", and an element that
\* is no RerankCandidate.
Candidate(id, text, score, metadata) ==
    [is_candidate |-> TRUE, id |-> id, text |-> text, score |-> score,
     metadata |-> metadata]

NotACandidate ==
    [is_candidate |-> FALSE, id |-> "", text |-> "", score |-> <<>>,
     metadata |-> <<>>]

RerankCandidates ==
    {Candidate("a", "x", <<>>, <<>>), Candidate("b", "y", <<5>>, <<"m">>),
     Candidate("c", "x", <<9>>, <<>>), Candidate("a", "y", <<9>>, <<"m">>)}

CandidateLists ==
    UNION {[1..n -> RerankCandidates \cup {NotACandidate}] : n \in 0..MaxCandidates}

\* The queries of the passthrough calls; the scored and the generative
\* reranker hand the query on to their collaborators, which the model leaves
\* out of what those do.
Queries == {"", "q"}

TopKs == {<<>>} \cup {<<k>> : k \in -1..MaxTopK}

\* The scores a scorer returns.
ScorerScores == {1, 2}

\* The scorers of a call: none but NoScorer when the call invokes no scorer;
\* else the scores for the candidates, and the invocation that fails (0: none)
\* with the way it fails.
Scorers(self, candidates) ==
    IF validate_candidates(candidates) \/ self.batch_size <= 0 THEN {NoScorer}
    ELSE LET n == Len(candidates)
             batches == (n + self.batch_size - 1) \div self.batch_size
         IN  {[scores |-> s, fail_at |-> f, mode |-> m] :
                 s \in [1..n -> ScorerScores], f \in 1..batches,
                 m \in {"raise", "count", "timeout"}}
             \cup {[scores |-> s, fail_at |-> 0, mode |-> "raise"] :
                      s \in [1..n -> ScorerScores]}

Content(content) == [kind |-> "content", content |-> content]

\* What the chat collaborator does in one call.
ChatOutcomes ==
    {[kind |-> "LLMError", content |-> <<>>],
     [kind |-> "Exception", content |-> <<>>],
     Content(<<"3", "\n", "1", "\n", "2">>),
     Content(<<"1", "\n", "2", ".", "5">>),
     Content(<<"x", " ", "2", "\n", "\n", "x", "\n", "1">>),
     Content(<<"x", "3", " ", "5">>),
     Content(<<"x">>),
     Content(<<"2", "\n", "2", "\n", "2">>),
     Content(<<"\n", " ", "1", "0", ".", "\n">>)}

\* The chat collaborators of a call: what the collaborator does in each of
\* the max_retries + 1 calls the reranker may make; the rerank action keeps
\* the calls that were made.  A call that fails validation asks nothing.
Chats(self, candidates) ==
    IF validate_candidates(candidates) THEN {<<>>}
    ELSE [1..Max(0, self.max_retries + 1) -> ChatOutcomes]

\* The scores handed to create_results when it is called directly.
ScoreLists == UNION {[1..n -> ScorerScores] : n \in 0..MaxCandidates}

\* The original_ranks handed to create_results: None, a list that covers
\* MaxCandidates candidates, and a list of one rank.
OriginalRanks ==
    {<<>>, <<[i \in 1..MaxCandidates |-> MaxCandidates - i]>>, << <<0>> >>}

----------------------------------------------------------------------------
(* The rerankers as a state machine: one use of a reranker class, which    *)
(* builds an instance and then makes one call on it.                       *)

\* NoneReranker()
NewNoneReranker ==
    /\ ~reranker.exists /\ ~reranker.ctor_raised
    /\ reranker' = [NoReranker EXCEPT !.exists = TRUE, !.backend = "none"]
    /\ UNCHANGED <<rerank, splitVars, stepVars, threads, factory, stitch>>

\* CrossEncoderReranker(scorer, batch_size=batch_size,
\*                      fallback_on_error=fallback_on_error)
NewCrossEncoderReranker(batch_size, fallback_on_error) ==
    /\ ~reranker.exists /\ ~reranker.ctor_raised
    /\ reranker' = [NoReranker EXCEPT
                       !.exists = TRUE, !.backend = "cross_encoder",
                       !.timeout = DEFAULT_TIMEOUT,
                       !.batch_size = batch_size,
                       !.fallback_on_error = fallback_on_error]
    /\ UNCHANGED <<rerank, splitVars, stepVars, threads, factory, stitch>>

\* LLMReranker(llm, prompt_path, max_retries=max_retries); the constructor
\* raises when the prompt file does not exist.
NewLLMReranker(max_retries, prompt_exists) ==
    /\ ~reranker.exists /\ ~reranker.ctor_raised
    /\ reranker' = IF prompt_exists
                   THEN [NoReranker EXCEPT !.exists = TRUE, !.backend = "llm",
                                           !.max_retries = max_retries]
                   ELSE [NoReranker EXCEPT !.ctor_raised = TRUE]
    /\ UNCHANGED <<rerank, splitVars, stepVars, threads, factory, stitch>>

\* NoneReranker.rerank(query, candidates, top_k)
NoneRerank ==
    /\ reranker.exists /\ reranker.backend = "none"
    /\ ~rerank.made
    /\ \E query \in Queries, candidates \in CandidateLists, top_k \in TopKs :
          LET out == NoneReranker_rerank(query, candidates, top_k)
          IN  rerank' = [NoRerank EXCEPT
                            !.made = TRUE, !.op = "rerank", !.query = query,
                            !.candidates = candidates, !.top_k = top_k,
                            !.raised = out.raised, !.results = out.results,
                            !.after = out.candidates]
    /\ UNCHANGED <<reranker, splitVars, stepVars, threads, factory, stitch>>

\* CrossEncoderReranker.rerank(query, candidates, top_k), with what the
\* scorer does during the call.
CrossEncoderRerankOn(lists, top_ks, limit) ==
    /\ reranker.exists /\ reranker.backend = "cross_encoder"
    /\ rerank.calls < limit
    /\ \E candidates \in lists, top_k \in top_ks :
          \E scorer \in Scorers(reranker, candidates) :
              LET out == CrossEncoderReranker_rerank(reranker, candidates,
                                                     top_k, scorer)
              IN  /\ rerank' = [NoRerank EXCEPT
                                   !.made = TRUE, !.op = "rerank",
                                   !.candidates = candidates, !.top_k = top_k,
                                   !.scorer = scorer, !.raised = out.raised,
                                   !.results = out.results,
                                   !.scorer_calls = out.scorer_calls,
                                   !.after = out.candidates,
                                   !.calls = rerank.calls + 1,
                                   !.before =
                                       [last_error |-> reranker.last_error,
                                        timeout_occurred |->
                                            reranker.timeout_occurred]]
                  /\ reranker' = [reranker EXCEPT
                                     !.last_error = out.last_error,
                                     !.timeout_occurred = out.timeout_occurred]
    /\ UNCHANGED <<splitVars, stepVars, threads, factory, stitch>>

\* The one call of a use of the scored reranker.
CrossEncoderRerank == CrossEncoderRerankOn(CandidateLists, TopKs, 1)

\* LLMReranker.rerank(query, candidates, top_k), with what the chat
\* collaborator does in each call made to it.
LLMRerank ==
    /\ reranker.exists /\ reranker.backend = "llm"
    /\ ~rerank.made
    /\ \E candidates \in CandidateLists, top_k \in TopKs :
          \E chat \in Chats(reranker, candidates) :
              LET out == LLMReranker_rerank(reranker, candidates, top_k, chat)
              IN  rerank' = [NoRerank EXCEPT
                                !.made = TRUE, !.op = "rerank",
                                !.candidates = candidates, !.top_k = top_k,
                                !.chat = SubSeq(chat, 1, out.calls),
                                !.raised = out.raised, !.results = out.results,
                                !.after = out.candidates,
                                !.chat_calls = [k \in 1..out.calls |->
                                                   format_prompt(candidates)]]
    /\ UNCHANGED <<reranker, splitVars, stepVars, threads, factory, stitch>>

\* create_results(candidates, scores, original_ranks), called directly; it
\* is inherited from BaseReranker and reads nothing of the instance.
CreateResults ==
    /\ reranker.exists /\ reranker.backend = "none"
    /\ ~rerank.made
    /\ \E candidates \in UNION {[1..n -> RerankCandidates] : n \in 0..MaxCandidates},
          scores \in ScoreLists, original_ranks \in OriginalRanks :
          LET out == create_results(candidates, scores, original_ranks)
          IN  rerank' = [NoRerank EXCEPT
                            !.made = TRUE, !.op = "create_results",
                            !.candidates = candidates, !.scores = scores,
                            !.original_ranks = original_ranks,
                            !.raised = out.raised, !.results = out.results,
                            !.after = out.candidates]
    /\ UNCHANGED <<reranker, splitVars, stepVars, threads, factory, stitch>>

NextRerank ==
    \/ NewNoneReranker
    \/ \E batch_size \in -1..MaxBatchSize, fallback_on_error \in BOOLEAN :
          NewCrossEncoderReranker(batch_size, fallback_on_error)
    \/ \E max_retries \in -1..MaxRetries, prompt_exists \in BOOLEAN :
          NewLLMReranker(max_retries, prompt_exists)
    \/ NoneRerank
    \/ CrossEncoderRerank
    \/ LLMRerank
    \/ CreateResults

SpecRerank == Init /\ [][NextRerank]_vars

----------------------------------------------------------------------------
(* Two threads calling rerank on one scored reranker.  A step is one       *)
(* statement of rerank or _score_with_timeout that reads or writes the     *)
(* instance, or one scorer invocation; the threads take steps in any order.*)

\* The calls of the threads: the first candidates of a, b, c, no top_k, and
\* a scorer that scores every text 1.
ThreadCandidateLists ==
    {[i \in 1..n |-> <<Candidate("a", "x", <<>>, <<>>),
                       Candidate("b", "y", <<5>>, <<"m">>),
                       Candidate("c", "x", <<9>>, <<>>)>>[i]] :
        n \in 0..Min(3, MaxThreadCandidates)}

ThreadScorers(self, candidates) ==
    {scorer \in Scorers(self, candidates) :
        \A i \in 1..Len(scorer.scores) : scorer.scores[i] = 1}

Running(t) == threads.call[t].pc \notin {"idle", "done"}

\* The call of thread t ends: it returns results or raises, and the thread
\* reads the diagnostics of the instance.
Ended(t, raised, results) ==
    [threads.call[t] EXCEPT
        !.pc = "done", !.raised = raised, !.results = results,
        !.seen = [last_error |-> reranker.last_error,
                  timeout_occurred |-> reranker.timeout_occurred]]

\* reranker.rerank(query, candidates) is called by thread t, and
\* self.validate_candidates(candidates) runs.
ThreadCall(t) ==
    /\ reranker.exists /\ reranker.backend = "cross_encoder"
    /\ threads.call[t].pc = "idle"
    /\ \E candidates \in ThreadCandidateLists :
          \E scorer \in ThreadScorers(reranker, candidates) :
              LET begun == [threads EXCEPT
                               !.call[t].candidates = candidates,
                               !.call[t].scorer = scorer,
                               !.overlapped = @ \/ \E u \in Threads : Running(u)]
              IN  threads' =
                      IF validate_candidates(candidates)
                      THEN [begun EXCEPT
                               !.call[t].pc = "done",
                               !.call[t].raised = "RerankerError",
                               !.call[t].seen =
                                   [last_error |-> reranker.last_error,
                                    timeout_occurred |->
                                        reranker.timeout_occurred]]
                      ELSE [begun EXCEPT !.call[t].pc = "reset_error"]
    /\ UNCHANGED <<reranker, rerank, splitVars, stepVars, factory, stitch>>

\* self._last_error = None
ThreadResetError(t) ==
    /\ threads.call[t].pc = "reset_error"
    /\ reranker' = [reranker EXCEPT !.last_error = ""]
    /\ threads' = [threads EXCEPT !.call[t].pc = "reset_timeout"]
    /\ UNCHANGED <<rerank, splitVars, stepVars, factory, stitch>>

\* self._timeout_occurred = False
ThreadResetTimeout(t) ==
    /\ threads.call[t].pc = "reset_timeout"
    /\ reranker' = [reranker EXCEPT !.timeout_occurred = FALSE]
    /\ threads' = [threads EXCEPT !.call[t].pc = "loop", !.call[t].k = 1]
    /\ UNCHANGED <<rerank, splitVars, stepVars, factory, stitch>>

\* One turn of the scoring loop: the scorer is invoked on the next batch and
\* returns or raises; after the last batch the results are assembled and
\* returned.  range raises ValueError for a batch_size of 0, and without a
\* batch create_results raises for want of scores.
ThreadScore(t) ==
    /\ threads.call[t].pc = "loop"
    /\ LET me == threads.call[t]
           texts == [i \in 1..Len(me.candidates) |-> me.candidates[i].text]
       IN  IF reranker.batch_size = 0
           THEN threads' = [threads EXCEPT !.call[t] = Ended(t, "ValueError", <<>>)]
           ELSE LET batches == Batches(texts, reranker.batch_size)
                IN  IF me.k > Len(batches)
                    THEN LET made == create_results(
                                 me.candidates,
                                 Prefix(me.scorer.scores,
                                        IF batches = <<>> THEN 0
                                        ELSE Len(me.candidates)),
                                 <<>>)
                         IN  threads' =
                                 IF made.raised = ""
                                 THEN [threads EXCEPT
                                          !.call[t] = Ended(t, "", TopK(made.results,
                                                                      me.top_k))]
                                 ELSE [threads EXCEPT !.call[t].pc = "except"]
                    ELSE LET invocation ==
                                 Scorer(reranker, me.scorer, me.k,
                                        (me.k - 1) * reranker.batch_size,
                                        batches[me.k])
                         IN  threads' =
                                 IF invocation.raises
                                 THEN [threads EXCEPT
                                          !.call[t].pc = "store_error",
                                          !.call[t].error = "Exception",
                                          !.call[t].failed = TRUE]
                                 ELSE IF invocation.elapsed > reranker.timeout
                                 THEN [threads EXCEPT
                                          !.call[t].pc = "flag_timeout",
                                          !.call[t].error = "RerankerError",
                                          !.call[t].failed = TRUE]
                                 ELSE IF Len(invocation.scores) # Len(batches[me.k])
                                 THEN [threads EXCEPT
                                          !.call[t].pc = "store_error",
                                          !.call[t].error = "RerankerError",
                                          !.call[t].failed = TRUE]
                                 ELSE [threads EXCEPT !.call[t].k = @ + 1]
    /\ UNCHANGED <<reranker, rerank, splitVars, stepVars, factory, stitch>>

\* self._timeout_occurred = True
ThreadFlagTimeout(t) ==
    /\ threads.call[t].pc = "flag_timeout"
    /\ reranker' = [reranker EXCEPT !.timeout_occurred = TRUE]
    /\ threads' = [threads EXCEPT !.call[t].pc = "store_error"]
    /\ UNCHANGED <<rerank, splitVars, stepVars, factory, stitch>>

\* except Exception as e: self._last_error = e
ThreadStoreError(t) ==
    /\ threads.call[t].pc = "store_error"
    /\ reranker' = [reranker EXCEPT !.last_error = threads.call[t].error]
    /\ threads' = [threads EXCEPT !.call[t].pc = "except"]
    /\ UNCHANGED <<rerank, splitVars, stepVars, factory, stitch>>

\* except RerankerError in rerank: the fallback results are returned, or the
\* error is raised again.
ThreadExcept(t) ==
    /\ threads.call[t].pc = "except"
    /\ threads' =
           [threads EXCEPT
               !.call[t] =
                   IF reranker.fallback_on_error
                   THEN Ended(t, "", TopK(FallbackResults(threads.call[t].candidates),
                                          threads.call[t].top_k))
                   ELSE Ended(t, "RerankerError", <<>>)]
    /\ UNCHANGED <<reranker, rerank, splitVars, stepVars, factory, stitch>>

NextThreads ==
    \/ \E batch_size \in -1..MaxBatchSize, fallback_on_error \in BOOLEAN :
          NewCrossEncoderReranker(batch_size, fallback_on_error)
    \/ \E t \in Threads :
          \/ ThreadCall(t)
          \/ ThreadResetError(t)
          \/ ThreadResetTimeout(t)
          \/ ThreadScore(t)
          \/ ThreadFlagTimeout(t)
          \/ ThreadStoreError(t)
          \/ ThreadExcept(t)

SpecThreads == Init /\ [][NextThreads]_vars

----------------------------------------------------------------------------
(* The parser of the generative reranker, called on its own.                *)

\* The characters of a response: digits, the dot, a letter, a blank and the
\* line break.
OutputChars == {"1", "2", ".", "x", " ", "\n"}

\* A number with two decimal digits stands in the response; Float keeps the
\* tenths only, so the responses of the model hold none.
TwoDecimals(output) ==
    \E i \in 1..(Len(output) - 3) :
        /\ IsDigit(output[i]) /\ output[i + 1] = "."
        /\ IsDigit(output[i + 2]) /\ IsDigit(output[i + 3])

Outputs ==
    {output \in UNION {[1..n -> OutputChars] : n \in 0..MaxOutputLen} :
        ~TwoDecimals(output)}

\* self._parse_scores(output, num_candidates); scores holds what it returns.
ParseScores ==
    /\ reranker.exists /\ reranker.backend = "llm"
    /\ ~rerank.made
    /\ \E output \in Outputs, num_candidates \in 0..MaxCandidates :
          LET out == parse_scores(output, num_candidates)
          IN  rerank' = [NoRerank EXCEPT
                            !.made = TRUE, !.op = "parse_scores",
                            !.output = output,
                            !.num_candidates = num_candidates,
                            !.raised = IF out.raised THEN "RerankerError"
                                       ELSE "",
                            !.scores = IF out.raised THEN <<>> ELSE out.scores]
    /\ UNCHANGED <<reranker, splitVars, stepVars, threads, factory, stitch>>

NextParse ==
    \/ \E max_retries \in -1..MaxRetries, prompt_exists \in BOOLEAN :
          NewLLMReranker(max_retries, prompt_exists)
    \/ ParseScores

SpecParse == Init /\ [][NextParse]_vars

----------------------------------------------------------------------------
(* One scored reranker serving several rerank calls in turn: the instance  *)
(* keeps its last error and its timeout flag from one call to the next.    *)

\* The candidate lists and the top_k of the calls of such a sequence.
CallCandidateLists ==
    UNION {[1..n -> {Candidate("a", "x", <<>>, <<>>),
                     Candidate("b", "y", <<5>>, <<"m">>), NotACandidate}] :
              n \in 0..MaxCallCandidates}

CallTopKs == {<<>>, <<1>>}

\* The next rerank call on the instance.
CrossEncoderRerankAgain ==
    CrossEncoderRerankOn(CallCandidateLists, CallTopKs, MaxCalls)

NextCalls ==
    \/ \E batch_size \in -1..MaxBatchSize, fallback_on_error \in BOOLEAN :
          NewCrossEncoderReranker(batch_size, fallback_on_error)
    \/ CrossEncoderRerankAgain

SpecCalls == Init /\ [][NextCalls]_vars

----------------------------------------------------------------------------
(* RerankerFactory and SplitterFactory: the registries and the calls on
   them.  A name is a sequence of characters. *)

\* str.lower() on one character of the names used here.
LowerChar(c) ==
    CASE c = "N" -> "n"
      [] c = "E" -> "e"
      [] c = "X" -> "x"
      [] OTHER -> c

\* str.lower()
Lower(name) == [i \in DOMAIN name |-> LowerChar(name[i])]

\* The names the calls are made with: three spellings of one name and a
\* second name.
Names == {<<"n", "e">>, <<"N", "e">>, <<"N", "E">>, <<"x">>}

\* The classes handed to RerankerFactory.register; str stands for any class
\* that is no reranker.
RerankerClasses == {"NoneReranker", "LLMReranker", "str"}

\* issubclass(reranker_class, BaseReranker)
IsReranker(reranker_class) == reranker_class \in {"NoneReranker", "LLMReranker"}

\* The classes handed to SplitterFactory.register.
SplitterClasses == {"RecursiveSplitter", "BaseSplitter", "str"}

\* issubclass(splitter_class, BaseSplitter)
IsSplitter(splitter_class) ==
    splitter_class \in {"RecursiveSplitter", "BaseSplitter"}

\* The keyword arguments of RerankerFactory.create_with_params, by name.
KwargSets == {{}, {"llm"}}

\* The keyword arguments create_from_rerank_settings builds from the fields
\* of RerankSettings other than provider.
SettingsConfig == {"model", "top_k"}

\* reranker_class(**kwargs) raises: NoneReranker takes any keyword,
\* LLMReranker requires llm (its prompt file is taken to exist).
NewRerankerRaises(reranker_class, kwargs) ==
    reranker_class = "LLMReranker" /\ "llm" \notin kwargs

\* The sizes SplitterFactory creates splitters with: one pair the
\* constructor accepts and one it refuses.
FactorySizes == {<<MaxChunkSize, 1>>, <<0, 0>>}

\* splitter_class(chunk_size=..., chunk_overlap=...) raises: BaseSplitter is
\* abstract, RecursiveSplitter runs the checks of BaseSplitter.__init__.
NewSplitterRaises(splitter_class, chunk_size, chunk_overlap) ==
    \/ splitter_class = "BaseSplitter"
    \/ InitRaises(chunk_size, chunk_overlap)

\* RerankerFactory.register: the exception it raises ("" for none) and the
\* registry it leaves.
RerankerFactory_register(registry, backend, reranker_class) ==
    LET backend_lower == Lower(backend)
    IN  IF backend_lower \in DOMAIN registry
        THEN [raised |-> "ValueError", registry |-> registry]
        ELSE IF ~IsReranker(reranker_class)
        THEN [raised |-> "TypeError", registry |-> registry]
        ELSE [raised |-> "",
              registry |-> (backend_lower :> reranker_class) @@ registry]

\* SplitterFactory.register: the name is stored as it was written.
SplitterFactory_register(registry, strategy, splitter_class) ==
    IF strategy \in DOMAIN registry
    THEN [raised |-> "ValueError", registry |-> registry]
    ELSE IF ~IsSplitter(splitter_class)
    THEN [raised |-> "TypeError", registry |-> registry]
    ELSE [raised |-> "", registry |-> (strategy :> splitter_class) @@ registry]

\* RerankerFactory.create_with_params
RerankerFactory_create_with_params(registry, backend, kwargs) ==
    LET backend_lower == Lower(backend)
    IN  IF backend_lower \notin DOMAIN registry
        THEN [raised |-> "RerankerError", resolved |-> <<>>, made |-> <<>>]
        ELSE LET reranker_class == registry[backend_lower]
             IN  IF NewRerankerRaises(reranker_class, kwargs)
                 THEN [raised |-> "RerankerError",
                       resolved |-> <<reranker_class>>, made |-> <<>>]
                 ELSE [raised |-> "", resolved |-> <<reranker_class>>,
                       made |-> <<reranker_class>>]

\* RerankerFactory.create_from_rerank_settings on RerankSettings(provider):
\* the message for an unknown backend reads rerank_settings.backend, a field
\* RerankSettings does not have, so building it raises AttributeError.
RerankerFactory_create_from_rerank_settings(registry, provider) ==
    LET backend == Lower(provider)
    IN  IF backend \notin DOMAIN registry
        THEN [raised |-> "AttributeError", resolved |-> <<>>, made |-> <<>>]
        ELSE LET reranker_class == registry[backend]
             IN  IF NewRerankerRaises(reranker_class, SettingsConfig)
                 THEN [raised |-> "RerankerError",
                       resolved |-> <<reranker_class>>, made |-> <<>>]
                 ELSE [raised |-> "", resolved |-> <<reranker_class>>,
                       made |-> <<reranker_class>>]

\* SplitterFactory.create_with_params and create_from_ingestion_settings:
\* both look the lower-cased name up and build the class with the two sizes.
SplitterFactory_create_with_params(registry, strategy, chunk_size, chunk_overlap) ==
    LET strategy_lower == Lower(strategy)
    IN  IF strategy_lower \notin DOMAIN registry
        THEN [raised |-> "SplitterError", resolved |-> <<>>, made |-> <<>>]
        ELSE LET splitter_class == registry[strategy_lower]
             IN  IF NewSplitterRaises(splitter_class, chunk_size,
                                      chunk_overlap)
                 THEN [raised |-> "SplitterError",
                       resolved |-> <<splitter_class>>, made |-> <<>>]
                 ELSE [raised |-> "", resolved |-> <<splitter_class>>,
                       made |-> <<splitter_class>>]

\* RerankerFactory.is_registered and SplitterFactory.is_registered
is_registered(registry, name) == Lower(name) \in DOMAIN registry

\* The record of a finished call.
FactoryCall(name_of_factory, op, name, class, raised, resolved, made, result) ==
    [factory |-> name_of_factory, op |-> op, name |-> name,
     class |-> class, raised |-> raised, resolved |-> resolved,
     made |-> made, result |-> result,
     before |-> factory[name_of_factory]]

\* RerankerFactory.register(backend, reranker_class)
RerankerRegister(backend, reranker_class) ==
    /\ LET out == RerankerFactory_register(factory.reranker, backend,
                                           reranker_class)
       IN  factory' =
             [factory EXCEPT
                !.reranker = out.registry,
                !.registered.reranker =
                    IF out.raised = ""
                    THEN @ \cup {<<backend, reranker_class>>} ELSE @,
                !.last = FactoryCall("reranker", "register", backend,
                                     reranker_class, out.raised, <<>>,
                                     <<>>, <<>>)]
    /\ UNCHANGED <<splitVars, stepVars, rerankVars, threads, stitch>>

\* SplitterFactory.register(strategy, splitter_class)
SplitterRegister(strategy, splitter_class) ==
    /\ LET out == SplitterFactory_register(factory.splitter, strategy,
                                           splitter_class)
       IN  factory' =
             [factory EXCEPT
                !.splitter = out.registry,
                !.registered.splitter =
                    IF out.raised = ""
                    THEN @ \cup {<<strategy, splitter_class>>} ELSE @,
                !.last = FactoryCall("splitter", "register", strategy,
                                     splitter_class, out.raised, <<>>,
                                     <<>>, <<>>)]
    /\ UNCHANGED <<splitVars, stepVars, rerankVars, threads, stitch>>

\* RerankerFactory.create_with_params(backend, **kwargs)
RerankerCreateWithParams(backend, kwargs) ==
    /\ LET out == RerankerFactory_create_with_params(factory.reranker,
                                                     backend, kwargs)
       IN  factory' =
             [factory EXCEPT
                !.last = FactoryCall("reranker", "create_with_params",
                                     backend, "", out.raised, out.resolved,
                                     out.made, <<>>)]
    /\ UNCHANGED <<splitVars, stepVars, rerankVars, threads, stitch>>

\* RerankerFactory.create_from_rerank_settings(RerankSettings(provider)),
\* which RerankerFactory.create(settings) hands settings.rerank to.
RerankerCreateFromSettings(provider) ==
    /\ LET out == RerankerFactory_create_from_rerank_settings(
                      factory.reranker, provider)
       IN  factory' =
             [factory EXCEPT
                !.last = FactoryCall("reranker",
                                     "create_from_rerank_settings",
                                     provider, "", out.raised, out.resolved,
                                     out.made, <<>>)]
    /\ UNCHANGED <<splitVars, stepVars, rerankVars, threads, stitch>>

\* SplitterFactory.create_with_params(strategy, chunk_size, chunk_overlap)
SplitterCreateWithParams(strategy, chunk_size, chunk_overlap) ==
    /\ LET out == SplitterFactory_create_with_params(
                      factory.splitter, strategy, chunk_size, chunk_overlap)
       IN  factory' =
             [factory EXCEPT
                !.last = FactoryCall("splitter", "create_with_params",
                                     strategy, "", out.raised, out.resolved,
                                     out.made, <<>>)]
    /\ UNCHANGED <<splitVars, stepVars, rerankVars, threads, stitch>>

\* SplitterFactory.create_from_ingestion_settings(ingestion_settings,
\* strategy), which SplitterFactory.create(settings, strategy) hands
\* settings.ingestion to.
SplitterCreateFromSettings(strategy, chunk_size, chunk_overlap) ==
    /\ LET out == SplitterFactory_create_with_params(
                      factory.splitter, strategy, chunk_size, chunk_overlap)
       IN  factory' =
             [factory EXCEPT
                !.last = FactoryCall("splitter",
                                     "create_from_ingestion_settings",
                                     strategy, "", out.raised, out.resolved,
                                     out.made, <<>>)]
    /\ UNCHANGED <<splitVars, stepVars, rerankVars, threads, stitch>>

\* RerankerFactory.is_registered(backend) or
\* SplitterFactory.is_registered(strategy)
IsRegistered(name_of_factory, name) ==
    /\ factory' =
         [factory EXCEPT
            !.last = FactoryCall(name_of_factory, "is_registered", name, "",
                                 "", <<>>, <<>>,
                                 <<is_registered(factory[name_of_factory],
                                                 name)>>)]
    /\ UNCHANGED <<splitVars, stepVars, rerankVars, threads, stitch>>

\* RerankerFactory.clear_registry() or SplitterFactory.clear_registry()
ClearRegistry(name_of_factory) ==
    /\ factory[name_of_factory] # EmptyRegistry
    /\ factory' =
         [factory EXCEPT
            ![name_of_factory] = EmptyRegistry,
            !.registered[name_of_factory] = {},
            !.last = FactoryCall(name_of_factory, "clear_registry", <<>>,
                                 "", "", <<>>, <<>>, <<>>)]
    /\ UNCHANGED <<splitVars, stepVars, rerankVars, threads, stitch>>

NextFactory ==
    \/ \E backend \in Names, reranker_class \in RerankerClasses :
          RerankerRegister(backend, reranker_class)
    \/ \E strategy \in Names, splitter_class \in SplitterClasses :
          SplitterRegister(strategy, splitter_class)
    \/ \E backend \in Names, kwargs \in KwargSets :
          RerankerCreateWithParams(backend, kwargs)
    \/ \E provider \in Names : RerankerCreateFromSettings(provider)
    \/ \E strategy \in Names, sizes \in FactorySizes :
          SplitterCreateWithParams(strategy, sizes[1], sizes[2])
    \/ \E strategy \in Names, sizes \in FactorySizes :
          SplitterCreateFromSettings(strategy, sizes[1], sizes[2])
    \/ \E name_of_factory \in {"reranker", "splitter"}, name \in Names :
          IsRegistered(name_of_factory, name)
    \/ \E name_of_factory \in {"reranker", "splitter"} :
          ClearRegistry(name_of_factory)

SpecFactory == Init /\ [][NextFactory]_vars

----------------------------------------------------------------------------
(* Properties of the splitter, checked under Spec. *)

\* A split_text call that returned chunks.
Returned == call.made /\ ~call.raised

TextOfCall == call.value.chars

NoCodeBlock == call.code_blocks = <<>>

\* The whole text is one split that no tier of the hierarchy can cut: the
\* hierarchy has no character tier, none of its separators occurs in the
\* text, and the text is longer than chunk_size.
WholeTextForced ==
    LET first == FirstSeparator(TextOfCall, splitter.separators, 0)
    IN  /\ first.separator # <<>>
        /\ ~Contains(TextOfCall, first.separator)
        /\ Len(TextOfCall) > splitter.chunk_size

\* C1 as claimed: for every valid (chunk_size, chunk_overlap) and non-empty
\* text, every chunk split_text returns is at most chunk_size long.
C1_EveryChunkWithinSize ==
    Returned =>
        \A k \in 1..Len(call.result) : Len(call.result[k]) <= splitter.chunk_size

\* C1 amended: with chunk_overlap = 0 and a text without fenced code, every
\* returned chunk is at most chunk_size long, and the chunks of a text sliced
\* by the forced character-level tier are exactly chunk_size long, except the
\* final remainder, which is shorter or equal and not empty.
C1_ChunkSizeWithoutOverlap ==
    (Returned /\ splitter.chunk_overlap = 0 /\ NoCodeBlock) =>
        /\ \A k \in 1..Len(call.chunks) :
               Len(call.chunks[k]) <= splitter.chunk_size
        /\ \A k \in 1..Len(call.result) :
               Len(call.result[k]) <= splitter.chunk_size
        /\ WholeTextForced =>
               LET n == Len(call.chunks)
               IN  /\ n >= 2
                   /\ \A k \in 1..(n - 1) :
                          Len(call.chunks[k]) = splitter.chunk_size
                   /\ Len(call.chunks[n]) \in 1..splitter.chunk_size
                   /\ Concat(call.chunks) = TextOfCall

\* C1 witness: a text sliced by the forced tier, with a shorter remainder.
C1_Witness ==
    /\ Returned /\ splitter.chunk_overlap = 0 /\ NoCodeBlock
    /\ WholeTextForced
    /\ Len(call.result) >= 2
    /\ Len(call.result[Len(call.result)]) < splitter.chunk_size

RECURSIVE BlocksOfChunks(_)
\* The fenced blocks found in each chunk, chunk after chunk.
BlocksOfChunks(chunks) ==
    IF chunks = <<>> THEN <<>>
    ELSE FindCodeBlocks(Head(chunks)) \o BlocksOfChunks(Tail(chunks))

\* C2 as claimed: each fenced block of the text occurs complete in exactly
\* one returned chunk: the fenced blocks found in the chunks, in order, are
\* the fenced blocks of the text, none cut, none twice and none missing.
C2_FencedBlocksIntact ==
    Returned => BlocksOfChunks(call.result) = call.code_blocks

\* C3 as claimed: with chunk_overlap > 0 and a text without fenced code, no
\* returned chunk is longer than chunk_size x 1.2.
C3_SoftCeiling ==
    (Returned /\ splitter.chunk_overlap > 0 /\ NoCodeBlock) =>
        \A k \in 1..Len(call.result) :
            5 * Len(call.result[k]) <= 6 * splitter.chunk_size

\* C4 as claimed: a non-empty text no longer than chunk_size comes back as
\* exactly one chunk, equal to the text.
C4_ShortTextOneChunk ==
    (Returned /\ Len(TextOfCall) <= splitter.chunk_size) =>
        call.result = <<TextOfCall>>

\* C4 amended: a text that has a character other than whitespace, holds no
\* fenced block and is no longer than chunk_size comes back, when separators
\* are kept, as exactly one chunk equal to the text, for every chunk_overlap
\* and every separator hierarchy.
C4_ShortVisibleTextOneChunk ==
    (/\ Returned
     /\ Len(TextOfCall) <= splitter.chunk_size
     /\ StripNonEmpty(TextOfCall)
     /\ NoCodeBlock
     /\ splitter.keep_separator) =>
        call.result = <<TextOfCall>>

\* C4 witness: a text of exactly chunk_size characters, with separators in
\* it and a positive overlap, returned whole.
C4_Witness ==
    /\ Returned
    /\ Len(TextOfCall) = splitter.chunk_size
    /\ splitter.chunk_overlap > 0
    /\ Contains(TextOfCall, <<" ">>)
    /\ StripNonEmpty(TextOfCall) /\ NoCodeBlock /\ splitter.keep_separator
    /\ call.result = <<TextOfCall>>

\* C5: with chunk_overlap = 0, separators kept and no fenced code, the chunks
\* of _split_recursive concatenate to the text, and split_text returns those
\* chunks less the whitespace-only ones.
C5_RoundTrip ==
    (/\ Returned
     /\ splitter.chunk_overlap = 0
     /\ splitter.keep_separator
     /\ NoCodeBlock) =>
        /\ Concat(call.chunks) = TextOfCall
        /\ \A k \in 1..Len(call.chunks) : call.chunks[k] # <<>>
        /\ call.result = SelectSeq(call.chunks, StripNonEmpty)

\* C5 witness: a text cut on a separator into several chunks, one of which
\* is whitespace only and is dropped from the result.
C5_Witness ==
    /\ Returned /\ splitter.chunk_overlap = 0 /\ splitter.keep_separator
    /\ NoCodeBlock
    /\ Len(call.chunks) >= 3
    /\ Len(call.result) < Len(call.chunks)
    /\ Len(call.result) >= 2
    /\ Contains(TextOfCall, <<".">>)

\* C7: split_text raises and returns nothing for the empty string and for
\* every value that is not a string, truthy or falsy.
C7_RejectsEmptyAndNonString ==
    (call.made /\ (~call.value.is_str \/ call.value.chars = <<>>)) =>
        /\ call.raised
        /\ call.result = <<>>
        /\ call.chunks = <<>>

\* C7 witness: a truthy value that is not a string was rejected.
C7_Witness ==
    /\ call.made /\ ~call.value.is_str /\ call.value.truthy
    /\ call.raised

\* C8: the constructor raises exactly when chunk_size <= 0, chunk_overlap < 0
\* or chunk_overlap >= chunk_size, and an instance exists only with
\* 0 <= chunk_overlap < chunk_size.
C8_ConstructorPreconditions ==
    /\ ctor.made =>
           /\ ctor.raised <=> (\/ ctor.chunk_size <= 0
                               \/ ctor.chunk_overlap < 0
                               \/ ctor.chunk_overlap >= ctor.chunk_size)
           /\ ctor.raised <=> ~splitter.exists
    /\ splitter.exists =>
           /\ 0 <= splitter.chunk_overlap
           /\ splitter.chunk_overlap < splitter.chunk_size
           /\ splitter.chunk_size = ctor.chunk_size
           /\ splitter.chunk_overlap = ctor.chunk_overlap

\* C8 witness: chunk_overlap equal to chunk_size was refused.
C8_Witness ==
    /\ ctor.made /\ ctor.raised
    /\ ctor.chunk_size > 0
    /\ ctor.chunk_overlap = ctor.chunk_size

----------------------------------------------------------------------------
(* Properties of the step-wise splitter, checked under SpecSteps. *)

\* Every nested call holds fewer separators than the call that made it, and
\* neither the stack nor the run reaches the size at which the model stops
\* following them.
StepsInv ==
    /\ Len(frames) < MaxDepth
    /\ steps.count < MaxSteps
    /\ Len(frames) <= Max(1, Len(splitter.separators))
    /\ \A i \in 2..Len(frames) :
           /\ Len(frames[i].separators) < Len(frames[i - 1].separators)
           /\ frames[i].separators = frames[i - 1].new_separators
           /\ Len(frames[i].text) > splitter.chunk_size
    /\ steps.phase = "running" <=> frames # <<>>

\* A call in progress can take a step.
StepsProgress ==
    steps.phase = "running" =>
        CanMerge \/ CanStartChunk \/ CanRecurse \/ CanHardSlice \/ CanReturn

\* What a finished step-wise run leaves is what split_text computes.
StepsAgree ==
    steps.phase = "done" =>
        LET out == split_text(splitter, steps.value)
        IN  /\ steps.raised = out.raised
            /\ steps.chunks = out.chunks
            /\ steps.result = out.result

\* C6: split_text terminates, for every non-empty string and every valid
\* configuration, custom hierarchies that are empty or lack the empty-string
\* tier included.  A call in progress can always take a step, every step is
\* counted and the count stays below MaxSteps, so every call ends; each
\* nested call receives a strictly shorter separator list; and a call on a
\* non-empty string ends without raising.
C6_SplitTerminates ==
    /\ StepsInv
    /\ StepsProgress
    /\ StepsAgree
    /\ (steps.phase = "done" /\ steps.value.is_str /\ steps.value.chars # <<>>)
           => ~steps.raised

\* C6 witness: a call under a hierarchy without the empty-string tier, on a
\* text that holds both of its separators, has ended with several chunks.
C6_Witness ==
    /\ steps.phase = "done" /\ ~steps.raised
    /\ splitter.separators = << <<".">>, <<" ">> >>
    /\ Contains(steps.value.chars, <<".">>)
    /\ Contains(steps.value.chars, <<" ">>)
    /\ Len(steps.result) >= 2

----------------------------------------------------------------------------
(* Properties of the rerankers, checked under SpecRerank. *)

\* A rerank call on valid candidates has returned.
Reranked ==
    /\ rerank.made /\ rerank.op = "rerank" /\ rerank.raised = ""
    /\ ~validate_candidates(rerank.candidates)

\* The ids of a list of candidates or results, as a set.
Ids(items) == {items[i].id : i \in 1..Len(items)}

\* C9 as stated: for every strategy and every rerank call on valid candidates
\* with any top_k, the ids of the returned results are exactly the ids of the
\* input candidates, none dropped, duplicated or introduced.
C9_IdsExactlyInputIds ==
    Reranked =>
        /\ Ids(rerank.results) = Ids(rerank.candidates)
        /\ Len(rerank.results) = Len(rerank.candidates)

\* C9 amended: for every strategy (passthrough, scored with its fallback
\* path, generative) and every rerank call on valid candidates that returns,
\* the ids of the results are pairwise distinct and each is the id of an
\* input candidate; there are min(top_k, n) results when top_k is positive
\* and n otherwise, so the ids are exactly the input ids whenever top_k is
\* absent, not positive, or at least n.
C9_IdsAmongInputIds ==
    Reranked =>
        LET n == Len(rerank.candidates)
            top_k == rerank.top_k
            limited == top_k # <<>> /\ top_k[1] > 0
        IN  /\ Ids(rerank.results) \subseteq Ids(rerank.candidates)
            /\ Cardinality(Ids(rerank.results)) = Len(rerank.results)
            /\ Len(rerank.results) = IF limited THEN Min(top_k[1], n) ELSE n
            /\ (~limited \/ top_k[1] >= n)
                   => Ids(rerank.results) = Ids(rerank.candidates)

\* C9 witness: a scored rerank call on three candidates whose scorer failed
\* has returned the fallback results, cut to top_k = 2.
C9_Witness ==
    /\ Reranked
    /\ reranker.backend = "cross_encoder"
    /\ rerank.scorer.fail_at > 0
    /\ Len(rerank.candidates) = 3
    /\ rerank.top_k = <<2>>
    /\ Len(rerank.results) = 2

\* A direct create_results call has been made.
Assembled == rerank.made /\ rerank.op = "create_results"

\* C10: create_results raises RerankerError when the numbers of candidates
\* and scores differ; otherwise (original_ranks absent, or one rank for every
\* candidate) it returns one result for each candidate, with the id, text and
\* metadata of the candidate and the score paired with it by position, with
\* original_rank the input position when no ranks are given, sorted so that
\* the scores never increase, the k-th result having new_rank k (0-based).
C10_CreateResults ==
    Assembled =>
        LET n == Len(rerank.candidates)
            results == rerank.results
            ranks == IF rerank.original_ranks = <<>> THEN [i \in 1..n |-> i - 1]
                     ELSE rerank.original_ranks[1]
        IN  /\ n # Len(rerank.scores) => rerank.raised = "RerankerError"
            /\ (n = Len(rerank.scores) /\ Len(ranks) >= n) =>
                   /\ rerank.raised = ""
                   /\ Len(results) = n
                   /\ \A k \in 1..n : results[k].new_rank = k - 1
                   /\ \A k \in 1..(n - 1) : results[k].score >= results[k + 1].score
                   /\ \E pos \in [1..n -> 1..n] :
                          /\ \A j, k \in 1..n : pos[j] = pos[k] => j = k
                          /\ \A k \in 1..n :
                                 results[k] =
                                     [id |-> rerank.candidates[pos[k]].id,
                                      text |-> rerank.candidates[pos[k]].text,
                                      metadata |-> rerank.candidates[pos[k]].metadata,
                                      score |-> rerank.scores[pos[k]],
                                      original_rank |-> ranks[pos[k]],
                                      new_rank |-> k - 1]

\* C10 witness: create_results, given three candidates with scores that are
\* not in descending order and no ranks, has returned the second candidate
\* first.
C10_Witness ==
    /\ Assembled /\ rerank.raised = ""
    /\ rerank.original_ranks = <<>>
    /\ rerank.scores = <<1, 2, 1>>
    /\ Len(rerank.results) = 3
    /\ rerank.results[1].original_rank = 1
    /\ rerank.results[2].original_rank = 0

\* What the rerank call of the state returns when it is made without top_k:
\* the same instance, candidates, scorer and chat collaborator.
WithoutTopK ==
    IF reranker.backend = "none"
    THEN NoneReranker_rerank(rerank.query, rerank.candidates, <<>>)
    ELSE IF reranker.backend = "cross_encoder"
    THEN CrossEncoderReranker_rerank(reranker, rerank.candidates, <<>>,
                                     rerank.scorer)
    ELSE LLMReranker_rerank(reranker, rerank.candidates, <<>>, rerank.chat)

\* C11: for every strategy and n valid candidates, a rerank call with
\* top_k = k > 0 returns exactly the first min(k, n) entries of the list the
\* same call returns without top_k, with the same scores and ranks, and a
\* call without top_k returns all n entries; the fallback path of the scored
\* reranker included.
C11_TopKIsPrefix ==
    Reranked =>
        LET n == Len(rerank.candidates)
            all == WithoutTopK
            top_k == rerank.top_k
        IN  /\ all.raised = ""
            /\ Len(all.results) = n
            /\ (top_k # <<>> /\ top_k[1] > 0) =>
                   rerank.results =
                       SubSeq(all.results, 1, IF top_k[1] <= n THEN top_k[1] ELSE n)
            /\ top_k = <<>> => rerank.results = all.results

\* C11 witness: a scored rerank call on three candidates with top_k = 1,
\* whose scorer ranked the last candidate first, has returned that candidate
\* alone.
C11_Witness ==
    /\ Reranked
    /\ reranker.backend = "cross_encoder"
    /\ rerank.scorer.fail_at = 0
    /\ Len(rerank.candidates) = 3
    /\ rerank.top_k = <<1>>
    /\ Len(rerank.results) = 1
    /\ rerank.results[1].original_rank = 2

\* The candidates of the call are not valid: the list is empty, an element
\* is no RerankCandidate, or two candidates have the same id.
InvalidCandidates ==
    LET candidates == rerank.candidates
    IN  \/ candidates = <<>>
        \/ \E i \in 1..Len(candidates) : ~candidates[i].is_candidate
        \/ \E i, j \in 1..Len(candidates) :
               i # j /\ candidates[i].id = candidates[j].id

\* C12: every strategy validates before doing any work: a rerank call whose
\* candidate list is empty, holds an element that is no RerankCandidate, or
\* holds two candidates of the same id raises RerankerError, with no scorer
\* call and no chat call made and no results returned; the scored strategy
\* does so when fallback_on_error is set as well.
C12_ValidateFirst ==
    (rerank.made /\ rerank.op = "rerank" /\ InvalidCandidates) =>
        /\ rerank.raised = "RerankerError"
        /\ rerank.results = <<>>
        /\ rerank.scorer_calls = <<>>
        /\ rerank.chat_calls = <<>>

\* C12 witness: a scored reranker with fallback_on_error set has raised on
\* two candidates of the same id.
C12_Witness ==
    /\ rerank.made /\ rerank.op = "rerank"
    /\ reranker.backend = "cross_encoder" /\ reranker.fallback_on_error
    /\ reranker.batch_size > 0
    /\ Len(rerank.candidates) = 2
    /\ rerank.candidates[1].is_candidate /\ rerank.candidates[2].is_candidate
    /\ rerank.candidates[1].id = rerank.candidates[2].id
    /\ rerank.raised = "RerankerError"

\* C13: the passthrough reranker returns, for valid candidates, the
\* candidates in input order, one result for each (the first top_k of them
\* when top_k is positive), with new_rank = original_rank = input position
\* and the score of the candidate, 0.0 when it has none, whatever the query
\* and however the scores compare.
C13_PassthroughKeepsOrder ==
    (Reranked /\ reranker.backend = "none") =>
        LET candidates == rerank.candidates
            n == Len(candidates)
            top_k == rerank.top_k
            m == IF top_k # <<>> /\ top_k[1] > 0 /\ top_k[1] < n THEN top_k[1]
                 ELSE n
        IN  /\ Len(rerank.results) = m
            /\ \A k \in 1..m :
                   rerank.results[k] =
                       [id |-> candidates[k].id, text |-> candidates[k].text,
                        metadata |-> candidates[k].metadata,
                        score |-> IF candidates[k].score = <<>> THEN 0
                                  ELSE candidates[k].score[1],
                        original_rank |-> k - 1, new_rank |-> k - 1]

\* C13 witness: a passthrough call with a query and without top_k, on three
\* candidates whose scores ascend and the first of which has none, has
\* returned three results, the first with score 0.
C13_Witness ==
    /\ Reranked /\ reranker.backend = "none"
    /\ rerank.query = "q" /\ rerank.top_k = <<>>
    /\ Len(rerank.candidates) = 3
    /\ rerank.candidates[1].score = <<>>
    /\ rerank.candidates[2].score = <<5>>
    /\ rerank.candidates[3].score = <<9>>
    /\ Len(rerank.results) = 3
    /\ rerank.results[1].score = 0

\* A rerank call of the scored reranker on valid candidates has been made.
ScoredCall ==
    /\ rerank.made /\ rerank.op = "rerank"
    /\ reranker.backend = "cross_encoder"
    /\ ~InvalidCandidates

\* A scorer invocation of the call failed: it raised, returned a number of
\* scores other than the size of its batch, or took longer than the timeout.
ScorerFailed == ScoredCall /\ rerank.scorer.fail_at > 0

\* C14: when a scorer invocation of a scored rerank call on valid candidates
\* raises, returns a wrong number of scores or exceeds the timeout, then with
\* fallback_on_error set the call returns the candidates in input order (the
\* first top_k of them when top_k is positive), each with its own score, 0.0
\* when it has none, and new_rank = original_rank = input position, and
\* get_last_error() is not None afterwards; with fallback_on_error unset the
\* call raises RerankerError and returns nothing.
C14_FallbackOrRaise ==
    ScorerFailed =>
        LET candidates == rerank.candidates
            n == Len(candidates)
            top_k == rerank.top_k
            m == IF top_k # <<>> /\ top_k[1] > 0 /\ top_k[1] < n THEN top_k[1]
                 ELSE n
        IN  IF reranker.fallback_on_error
            THEN /\ rerank.raised = ""
                 /\ reranker.last_error # ""
                 /\ Len(rerank.results) = m
                 /\ \A k \in 1..m :
                        rerank.results[k] =
                            [id |-> candidates[k].id, text |-> candidates[k].text,
                             metadata |-> candidates[k].metadata,
                             score |-> IF candidates[k].score = <<>> THEN 0
                                       ELSE candidates[k].score[1],
                             original_rank |-> k - 1, new_rank |-> k - 1]
            ELSE /\ rerank.raised = "RerankerError"
                 /\ rerank.results = <<>>

\* C14 witness: with fallback_on_error set, the second scorer invocation of
\* a call on three candidates returned too few scores and the call returned
\* the three candidates.
C14_Witness ==
    /\ ScorerFailed
    /\ reranker.fallback_on_error
    /\ rerank.scorer.fail_at = 2 /\ rerank.scorer.mode = "count"
    /\ Len(rerank.candidates) = 3
    /\ Len(rerank.results) = 3

\* C15: the last error and the timeout flag of the scored reranker describe
\* only the rerank call made last: after a call in which no scorer invocation
\* failed, get_last_error() is None and did_timeout_occur() is False,
\* whatever the calls before it left on the instance.
C15_ResetEachCall ==
    (/\ rerank.made /\ rerank.op = "rerank"
     /\ reranker.backend = "cross_encoder"
     /\ rerank.scorer.fail_at = 0)
        => reranker.last_error = "" /\ ~reranker.timeout_occurred

\* The same for the calls that pass validation, which come to the reset.
ResetAfterValidation ==
    (ScoredCall /\ rerank.scorer.fail_at = 0)
        => reranker.last_error = "" /\ ~reranker.timeout_occurred

\* A later call on valid candidates, without failure, after a call that left
\* an error and the timeout flag.
ResetSeen ==
    /\ ScoredCall /\ rerank.scorer.fail_at = 0
    /\ rerank.calls > 1
    /\ rerank.before.last_error # "" /\ rerank.before.timeout_occurred
    /\ rerank.raised = ""

\* A rerank call of the generative reranker on valid candidates has been
\* made, with max_retries >= 0 and a chat collaborator that raised nothing
\* but LLMError.
GenerativeCall ==
    /\ rerank.made /\ rerank.op = "rerank"
    /\ reranker.backend = "llm"
    /\ ~InvalidCandidates
    /\ reranker.max_retries >= 0
    /\ \A k \in 1..Len(rerank.chat) : rerank.chat[k].kind # "Exception"

\* The k-th attempt of the call succeeded: the chat call returned and the
\* response parsed into one score for each candidate.
AttemptSucceeded(k) ==
    /\ rerank.chat[k].kind = "content"
    /\ ~parse_scores(rerank.chat[k].content, Len(rerank.candidates)).raised

\* C16: a generative rerank call on valid candidates with max_retries = R >= 0
\* makes one chat call for each attempt and none after the first attempt that
\* succeeds: when attempt k is the first to succeed, exactly k calls are made
\* and results are returned; when every attempt fails, by LLMError or by a
\* parse failure, exactly R + 1 calls are made and RerankerError is raised.
C16_RetryCount ==
    GenerativeCall =>
        LET calls == Len(rerank.chat_calls)
        IN  /\ Len(rerank.chat) = calls
            /\ calls >= 1 /\ calls <= reranker.max_retries + 1
            /\ \A k \in 1..(calls - 1) : ~AttemptSucceeded(k)
            /\ IF AttemptSucceeded(calls)
               THEN rerank.raised = "" /\ rerank.results # <<>>
               ELSE /\ calls = reranker.max_retries + 1
                    /\ rerank.raised = "RerankerError"
                    /\ rerank.results = <<>>

\* C16 witness: with max_retries = 1 the first response did not parse into
\* two scores, the second did, and the call returned after two chat calls.
C16_Witness ==
    /\ GenerativeCall
    /\ reranker.max_retries = 1
    /\ Len(rerank.candidates) = 2
    /\ Len(rerank.chat_calls) = 2
    /\ rerank.chat[1].kind = "content" /\ ~AttemptSucceeded(1)
    /\ AttemptSucceeded(2)
    /\ rerank.raised = "" /\ Len(rerank.results) = 2

\* Every attempt of a call with max_retries = 1 failed, the first by
\* LLMError and the second by a parse failure.
AllAttemptsFailed ==
    /\ GenerativeCall
    /\ reranker.max_retries = 1
    /\ Len(rerank.chat_calls) = 2
    /\ rerank.chat[1].kind = "LLMError" /\ rerank.chat[2].kind = "content"
    /\ rerank.raised = "RerankerError"

\* A generative rerank call that returned results.
GenerativeSuccess == GenerativeCall /\ rerank.raised = ""

\* The scores parsed from the response of the last chat call.
ParsedScores ==
    parse_scores(rerank.chat[Len(rerank.chat)].content,
                 Len(rerank.candidates)).scores

\* C17: when a generative rerank succeeds, the i-th parsed score goes to the
\* i-th candidate of the input and the results are ordered by descending
\* score with new_rank = position (a positive top_k keeps the first top_k of
\* them); the response 3, 1, 2 over three candidates returns the first, the
\* third and the second candidate with scores 3, 2, 1 and new_rank 0, 1, 2.
C17_ScoresByPosition ==
    GenerativeSuccess =>
        LET candidates == rerank.candidates
            results == rerank.results
            n == Len(candidates)
            top_k == rerank.top_k
            m == IF top_k # <<>> /\ top_k[1] > 0 /\ top_k[1] < n THEN top_k[1]
                 ELSE n
            kept == {results[p].original_rank + 1 : p \in 1..Len(results)}
        IN  /\ Len(ParsedScores) = n
            /\ Len(results) = m
            /\ \A p \in 1..m :
                   LET i == results[p].original_rank + 1
                   IN  /\ i \in 1..n
                       /\ results[p].id = candidates[i].id
                       /\ results[p].text = candidates[i].text
                       /\ results[p].metadata = candidates[i].metadata
                       /\ results[p].score = ParsedScores[i]
                       /\ results[p].new_rank = p - 1
            /\ \A p, q \in 1..m :
                   /\ p < q => results[p].score >= results[q].score
                   /\ p # q => results[p].original_rank # results[q].original_rank
            /\ \A i \in (1..n) \ kept : ParsedScores[i] <= results[m].score
            /\ (/\ rerank.chat[Len(rerank.chat)].content
                       = <<"3", "\n", "1", "\n", "2">>
                /\ top_k = <<>>)
                   => /\ [p \in 1..3 |-> results[p].id]
                          = <<candidates[1].id, candidates[3].id,
                              candidates[2].id>>
                      /\ [p \in 1..3 |-> results[p].score] = <<30, 20, 10>>
                      /\ [p \in 1..3 |-> results[p].new_rank] = <<0, 1, 2>>

\* C17 witness: the response 3, 1, 2 over the candidates a, b, c without
\* top_k returned c second.
C17_Witness ==
    /\ GenerativeSuccess
    /\ rerank.top_k = <<>>
    /\ rerank.chat[Len(rerank.chat)].content = <<"3", "\n", "1", "\n", "2">>
    /\ [i \in 1..3 |-> rerank.candidates[i].id] = <<"a", "b", "c">>
    /\ Len(rerank.results) = 3
    /\ rerank.results[2].id = "c" /\ rerank.results[2].score = 20

\* The parser has been called on a response.
Parsed == rerank.made /\ rerank.op = "parse_scores"

\* The line holds a number.
HasNumber(line) == \E i \in 1..Len(line) : IsDigit(line[i])

\* The scores the lines of a response stand for: the value of the first
\* number of each line that holds one, in the order of the lines.
ScoresOfLines(output) ==
    LET numbered == SelectSeq(StrSplit(output, <<"\n">>), HasNumber)
    IN  [k \in 1..Len(numbered) |-> Float(FirstNumber(numbered[k])[1])]

\* C18: the parser of the generative reranker reads the response line by
\* line; blank lines and lines without a number give nothing, every other
\* line gives one score, the first integer or decimal number on it, and the
\* scores keep the order of the lines; it raises RerankerError when the
\* number of scores is not the number of candidates.
C18_ParseByLine ==
    Parsed =>
        IF Len(ScoresOfLines(rerank.output)) = rerank.num_candidates
        THEN rerank.raised = "" /\ rerank.scores = ScoresOfLines(rerank.output)
        ELSE rerank.raised = "RerankerError" /\ rerank.scores = <<>>

\* C18 witness: the response "x2" followed by two line breaks, parsed for
\* one candidate, gave the score 2.
C18_Witness ==
    /\ Parsed
    /\ rerank.output = <<"x", "2", "\n", "\n">>
    /\ rerank.num_candidates = 1
    /\ rerank.scores = <<20>>

\* Two lines with different numbers were parsed into two scores.
TwoLinesParsed ==
    /\ Parsed
    /\ rerank.output = <<"2", "\n", " ", "1">>
    /\ rerank.num_candidates = 2
    /\ rerank.scores = <<20, 10>>

\* A response of fewer numbered lines than candidates was refused.
ParseRefused ==
    /\ Parsed
    /\ rerank.output = <<"1", " ", "2">>
    /\ rerank.num_candidates = 2
    /\ rerank.raised = "RerankerError"

\* A scored rerank call on valid candidates with a batch size of at least 1
\* in which no scorer invocation failed.
BatchedCall ==
    /\ ScoredCall
    /\ reranker.batch_size >= 1
    /\ rerank.scorer.fail_at = 0

\* C19: with batch size b >= 1 and n valid candidates, a scored rerank call
\* in which no scorer invocation fails invokes the scorer exactly ceil(n / b)
\* times; the k-th invocation receives the texts of the candidates
\* (k - 1) * b .. min(k * b, n) - 1 in input order, and the candidate at
\* input position i is given the i-th of the scores the invocations returned,
\* taken in the order of the invocations.
C19_Batching ==
    BatchedCall =>
        LET candidates == rerank.candidates
            n == Len(candidates)
            b == reranker.batch_size
            invocations == Len(rerank.scorer_calls)
        IN  /\ invocations * b >= n /\ (invocations - 1) * b < n
            /\ \A k \in 1..invocations :
                   LET first == (k - 1) * b
                       last == IF k * b < n THEN k * b ELSE n
                   IN  rerank.scorer_calls[k] =
                           [j \in 1..(last - first) |-> candidates[first + j].text]
            /\ rerank.raised = ""
            /\ \A p \in 1..Len(rerank.results) :
                   LET i == rerank.results[p].original_rank + 1
                   IN  /\ rerank.results[p].id = candidates[i].id
                       /\ rerank.results[p].score = rerank.scorer.scores[i]

\* C19 witness: three candidates in batches of two: two invocations, the
\* second on the text of the third candidate alone, which was scored highest
\* and came first.
C19_Witness ==
    /\ BatchedCall
    /\ reranker.batch_size = 2
    /\ Len(rerank.candidates) = 3
    /\ rerank.scorer_calls = <<<<"x", "y">>, <<"x">>>>
    /\ rerank.scorer.scores = <<1, 1, 2>>
    /\ rerank.results[1].original_rank = 2 /\ rerank.results[1].score = 2

\* A scorer invocation of the call returned after more than the timeout.
OverLimit ==
    /\ ScoredCall
    /\ rerank.scorer.fail_at > 0 /\ rerank.scorer.mode = "timeout"

\* C20: a timeout is found only when the scorer invocation has returned: the
\* invocation that took longer than the timeout was made and is the last of
\* the call, its scores are dropped and the call ends as on any scoring
\* failure (the fallback results, or RerankerError without fallback); after
\* a rerank call on valid candidates did_timeout_occur() is True exactly when
\* an invocation of that call was over the limit, and then get_last_error()
\* is not None.
C20_TimeoutAfterReturn ==
    ScoredCall =>
        /\ reranker.timeout_occurred <=> OverLimit
        /\ reranker.timeout_occurred => reranker.last_error # ""
        /\ OverLimit =>
               /\ Len(rerank.scorer_calls) = rerank.scorer.fail_at
               /\ IF reranker.fallback_on_error
                  THEN /\ rerank.raised = ""
                       /\ rerank.results # <<>>
                       /\ \A k \in 1..Len(rerank.results) :
                              /\ rerank.results[k].id = rerank.candidates[k].id
                              /\ rerank.results[k].score =
                                     (IF rerank.candidates[k].score = <<>> THEN 0
                                      ELSE rerank.candidates[k].score[1])
                  ELSE rerank.raised = "RerankerError" /\ rerank.results = <<>>

\* C20 witness: the second invocation of the second call on an instance was
\* over the limit, after a first call without timeout; the flag is set and
\* the call returned the fallback results.
C20_Witness ==
    /\ OverLimit
    /\ rerank.calls = 2 /\ ~rerank.before.timeout_occurred
    /\ rerank.scorer.fail_at = 2
    /\ reranker.fallback_on_error
    /\ reranker.timeout_occurred
    /\ Len(rerank.results) = 2

\* A call without timeout after a call that timed out: the flag is down.
FlagCleared ==
    /\ ScoredCall /\ ~OverLimit
    /\ rerank.calls = 2 /\ rerank.before.timeout_occurred
    /\ rerank.scorer.fail_at > 0
    /\ ~reranker.timeout_occurred

\* A rerank call of any strategy has been made, whatever its outcome.
RerankCalled == rerank.made /\ rerank.op = "rerank"

\* C21: rerank never changes its input: for every strategy and every outcome
\* (results, a top_k cut, the fallback of the scored reranker, retries of the
\* generative reranker, a raised error) the candidate list of the caller holds
\* the same elements in the same order after the call, and the id, text,
\* score and metadata of every candidate are what they were.
C21_InputUnchanged ==
    RerankCalled =>
        /\ Len(rerank.after) = Len(rerank.candidates)
        /\ \A i \in 1..Len(rerank.candidates) :
               /\ rerank.after[i].is_candidate = rerank.candidates[i].is_candidate
               /\ rerank.after[i].id = rerank.candidates[i].id
               /\ rerank.after[i].text = rerank.candidates[i].text
               /\ rerank.after[i].score = rerank.candidates[i].score
               /\ rerank.after[i].metadata = rerank.candidates[i].metadata

\* C21 witness: a generative call on three candidates returned them in
\* another order than the input, the last candidate second, and left the
\* list of the caller as it was.
C21_Witness ==
    /\ RerankCalled
    /\ reranker.backend = "llm"
    /\ rerank.raised = ""
    /\ Len(rerank.results) = 3
    /\ rerank.results[2].original_rank = 2
    /\ rerank.after = rerank.candidates

\* The diagnostics thread t read when its call ended are not those of its
\* call: no scorer invocation of the call failed and an error or the timeout
\* flag is shown, or an invocation failed and no error is shown.
ForeignDiagnostics(t) ==
    LET me == threads.call[t]
    IN  /\ me.pc = "done"
        /\ \/ ~me.failed /\ (me.seen.last_error # "" \/ me.seen.timeout_occurred)
           \/ me.failed /\ me.seen.last_error = ""

\* C22: the diagnostics a thread reads when its rerank call on a scored
\* reranker has ended belong to another call only when two calls ran at the
\* same time: no call that ran alone, after or before the other, ends with
\* an error or the timeout flag shown though none of its scorer invocations
\* failed, or with its error cleared.
C22_SerializedCallsAgree ==
    \A t \in Threads : ForeignDiagnostics(t) => threads.overlapped

\* The same for the calls that pass validation.
SerializedValidCallsAgree ==
    \A t \in Threads :
        (ForeignDiagnostics(t) /\ ~validate_candidates(threads.call[t].candidates))
            => threads.overlapped

\* Two calls on valid candidates ran at the same time and one of them, in
\* which the scorer failed, ended with no error shown: the reset of the other
\* call cleared it.
ErrorClearedByOtherCall ==
    /\ threads.overlapped
    /\ \A t \in Threads : ~validate_candidates(threads.call[t].candidates)
    /\ \E t \in Threads :
          /\ ForeignDiagnostics(t)
          /\ threads.call[t].failed

\* Two calls on valid candidates ran at the same time and one of them, in
\* which no scorer invocation failed, ended with the timeout flag shown.
TimeoutOfOtherCall ==
    /\ threads.overlapped
    /\ \A t \in Threads : ~validate_candidates(threads.call[t].candidates)
    /\ \E t \in Threads :
          /\ ForeignDiagnostics(t)
          /\ ~threads.call[t].failed
          /\ threads.call[t].seen.timeout_occurred

\* A rerank call of the scored reranker has been made, whatever its outcome.
ScoredCalled ==
    /\ rerank.made /\ rerank.op = "rerank"
    /\ reranker.backend = "cross_encoder"

\* The same call made on an instance of the same settings whose last error
\* is None and whose timeout flag is False.
OnFreshInstance ==
    CrossEncoderReranker_rerank(
        [reranker EXCEPT !.last_error = "", !.timeout_occurred = FALSE],
        rerank.candidates, rerank.top_k, rerank.scorer)

\* C23: the diagnostics are not read for control flow: a rerank call of the
\* scored reranker returns the same results, or raises the same error, and
\* invokes the scorer on the same batches, as the same call (settings, scorer
\* behaviour, candidates, top_k) on an instance whose last error is None and
\* whose timeout flag is False, whatever the earlier calls left in the two
\* fields.
C23_OutcomeIgnoresHistory ==
    ScoredCalled =>
        /\ rerank.raised = OnFreshInstance.raised
        /\ rerank.results = OnFreshInstance.results
        /\ rerank.scorer_calls = OnFreshInstance.scorer_calls

\* C23 witness: a call made when the instance held an error and the timeout
\* flag of an earlier call scored two candidates and returned them by score,
\* the second candidate first.
C23_Witness ==
    /\ ScoredCalled
    /\ rerank.calls > 1
    /\ rerank.before.last_error # "" /\ rerank.before.timeout_occurred
    /\ rerank.scorer.fail_at = 0
    /\ rerank.raised = ""
    /\ Len(rerank.results) = 2
    /\ rerank.results[1].original_rank = 1

\* C28: within one scored rerank call the scorer is not invoked again once
\* an invocation has failed (the failed invocation is the last), and no
\* returned result carries a score of the batches scored before the failure:
\* each result of the fallback has the own score of its candidate, or 0.0
\* when the candidate has none.
C28_NoScoringAfterFailure ==
    ScorerFailed =>
        /\ Len(rerank.scorer_calls) = rerank.scorer.fail_at
        /\ \A p \in 1..Len(rerank.results) :
               LET candidate == rerank.candidates[rerank.results[p].original_rank + 1]
               IN  /\ rerank.results[p].id = candidate.id
                   /\ rerank.results[p].score =
                          (IF candidate.score = <<>> THEN 0 ELSE candidate.score[1])

\* C28 witness: of three candidates scored one by one the first was scored
\* 2, the second invocation raised, the third candidate was never handed to
\* the scorer, and the fallback returned the three candidates with their own
\* scores.
C28_Witness ==
    /\ ScorerFailed
    /\ reranker.batch_size = 1 /\ reranker.fallback_on_error
    /\ Len(rerank.candidates) = 3
    /\ rerank.scorer.fail_at = 2 /\ rerank.scorer.mode = "raise"
    /\ rerank.scorer.scores[1] = 2
    /\ Len(rerank.scorer_calls) = 2
    /\ [p \in 1..3 |-> rerank.results[p].score] = <<0, 5, 9>>

\* A rerank call of the generative reranker on valid candidates has been
\* made, whatever the chat collaborator did.
GenerativeCalled ==
    /\ rerank.made /\ rerank.op = "rerank"
    /\ reranker.backend = "llm"
    /\ ~InvalidCandidates

OtherExceptionInRetry ==
    /\ GenerativeCalled
    /\ Len(rerank.chat) = 2
    /\ rerank.chat[1].kind = "LLMError" /\ rerank.chat[2].kind = "Exception"
    /\ rerank.raised = "Exception"

\* The input position (1-based) of the candidate a result was built from:
\* create_results gives the i-th candidate the i-th original rank, which is
\* i - 1 when no ranks are supplied, and every strategy does the same.
InputPosition(result) ==
    IF rerank.op = "create_results" /\ rerank.original_ranks # <<>>
    THEN CHOOSE i \in 1..Len(rerank.candidates) :
             rerank.original_ranks[1][i] = result.original_rank
    ELSE result.original_rank + 1

\* create_results or a rerank call has returned results.
ResultsReturned ==
    /\ rerank.made /\ rerank.op \in {"create_results", "rerank"}
    /\ rerank.raised = ""

\* C30: ties are broken by input order: of any two results of equal score
\* in the output of create_results, and so of every rerank call, the one
\* whose candidate stood earlier in the input comes first, so that equal
\* scores leave nothing of the output order open.
C30_TiesKeepInputOrder ==
    ResultsReturned =>
        \A p, q \in 1..Len(rerank.results) :
            /\ (p < q /\ rerank.results[p].score = rerank.results[q].score)
                   => InputPosition(rerank.results[p])
                          < InputPosition(rerank.results[q])
            /\ rerank.results[p].id
                   = rerank.candidates[InputPosition(rerank.results[p])].id

\* C30 witness: create_results on the candidates a, b, c with the scores
\* 1, 2, 1 returned b, a, c: the tied a and c in input order.
C30_Witness ==
    /\ rerank.made /\ rerank.op = "create_results"
    /\ rerank.raised = ""
    /\ rerank.original_ranks = <<>>
    /\ rerank.scores = <<1, 2, 1>>
    /\ [i \in 1..3 |-> rerank.candidates[i].id] = <<"a", "b", "c">>
    /\ [p \in 1..3 |-> rerank.results[p].id] = <<"b", "a", "c">>

\* The generative reranker on three candidates scored 2, 2, 2 returned them
\* in input order.
AllTiedKeepsInput ==
    /\ GenerativeSuccess
    /\ Len(rerank.results) = 3
    /\ \A p \in 1..3 : rerank.results[p].score = 20
                       /\ rerank.results[p].original_rank = p - 1

----------------------------------------------------------------------------
(* The separator tiers of _split_recursive, checked under SpecSteps. *)

\* The tiers of a call's hierarchy that its search can stop at: the
\* separators that occur in its text, and the empty-string tier.
Eligible(frame) ==
    {i \in 1..Len(frame.separators) :
        \/ frame.separators[i] = <<>>
        \/ Contains(frame.text, frame.separators[i])}

\* The highest-priority such tier; the last tier when there is none.
Tier(frame) ==
    IF Eligible(frame) = {} THEN Len(frame.separators)
    ELSE CHOOSE i \in Eligible(frame) : \A j \in Eligible(frame) : i <= j

\* A call splits on the highest-priority separator that occurs in its text,
\* into characters when that is the empty-string tier, and keeps for its
\* nested calls the tiers strictly below the one it used.
UsesHighestTier(frame) ==
    /\ Eligible(frame) # {} => frame.separator = frame.separators[Tier(frame)]
    /\ frame.separator = <<>> =>
          /\ frame.new_separators = <<>>
          /\ \A k \in 1..Len(frame.splits) : Len(frame.splits[k]) = 1
    /\ frame.separator # <<>> =>
          frame.new_separators =
              SubSeq(frame.separators, Tier(frame) + 1, Len(frame.separators))

\* A nested call works on a fragment longer than chunk_size, with the tiers
\* its caller kept, and so on no tier its caller had reached.
NestedBelow(d) ==
    /\ Len(frames[d + 1].text) > splitter.chunk_size
    /\ frames[d + 1].separators = frames[d].new_separators
    /\ \A i \in 1..Tier(frames[d]) :
          frames[d + 1].separator # frames[d].separators[i]

\* The innermost call after the step.
NewTop == frames'[Len(frames')]

\* The step takes a fragment longer than chunk_size from the innermost call.
TakesLongSplit ==
    /\ frames # <<>>
    /\ frames' # <<>>
    /\ Top.splits # <<>>
    /\ Len(Head(Top.splits)) > splitter.chunk_size
    /\ Len(frames') >= Len(frames)

\* The fragment is handed to a nested call on the tiers that remain.
Resplit ==
    /\ Top.new_separators # <<>>
    /\ Len(frames') = Len(frames) + 1
    /\ NewTop.text = Head(Top.splits)
    /\ NewTop.separators = Top.new_separators

\* The fragment is cut every chunk_size characters and the pieces are
\* appended to good_splits.
HardSliced ==
    LET split == Head(Top.splits)
        size == splitter.chunk_size
        n == (Len(split) + size - 1) \div size
        base == Len(Closed(Top))
    IN  /\ Top.new_separators = <<>>
        /\ Len(frames') = Len(frames)
        /\ Len(NewTop.good_splits) = base + n
        /\ SubSeq(NewTop.good_splits, 1, base) = Closed(Top)
        /\ \A k \in 1..n :
              NewTop.good_splits[base + k] =
                  SubSeq(split, (k - 1) * size + 1, Min(k * size, Len(split)))

\* C26: at every level of the recursion the text is split on the
\* highest-priority separator of the remaining hierarchy that occurs in it
\* (into characters at the empty-string tier); a fragment longer than
\* chunk_size is split again on the tiers strictly below the one just used,
\* never on the same or a higher tier, and is cut every chunk_size
\* characters when no lower tier remains.
C26_TierDescent ==
    /\ [](/\ \A d \in 1..Len(frames) : UsesHighestTier(frames[d])
          /\ \A d \in 1..(Len(frames) - 1) : NestedBelow(d))
    /\ [][TakesLongSplit => (Resplit \/ HardSliced)]_vars

\* A nested call split on a lower tier that occurs in its fragment, and cut
\* a piece that was still too long every chunk_size characters.
C26_Witness ==
    /\ Len(frames) = 2
    /\ frames[1].separator = <<".">>
    /\ frames[2].separator = <<" ">>
    /\ Contains(frames[2].text, <<" ">>)
    /\ frames[2].new_separators = <<>>
    /\ frames[2].good_splits = << <<" ">>, <<"a">>, <<".">> >>

----------------------------------------------------------------------------
(* Properties of the overlap stitching, checked under SpecOverlap. *)

\* The last n characters of s, all of s when it is shorter (n > 0).
LastChars(s, n) == SubSeq(s, Max(Len(s) - n, 0) + 1, Len(s))

\* The first n characters of s, all of s when it is shorter.
FirstChars(s, n) == SubSeq(s, 1, Min(n, Len(s)))

\* What stitching may put before and after chunk i of the list it got.
PrefixChoices(i) ==
    IF i = 1 THEN {<<>>}
    ELSE {<<>>, LastChars(stitch.chunks[i - 1], splitter.chunk_overlap)}

SuffixChoices(i) ==
    IF i = Len(stitch.chunks) THEN {<<>>}
    ELSE {<<>>, FirstChars(stitch.chunks[i + 1], splitter.chunk_overlap)}

\* C27: stitching k >= 2 chunks returns k chunks in the same order; chunk i
\* of the result is chunk i of the input, with nothing or the last
\* chunk_overlap characters of input chunk i-1 before it and nothing or the
\* first chunk_overlap characters of input chunk i+1 after it (of a shorter
\* neighbour, all of it); the first chunk gets nothing before it and the
\* last nothing after it; with chunk_overlap = 0 or fewer than two chunks
\* the list is returned as it is.
C27_Stitching ==
    stitch.made =>
        /\ Len(stitch.result) = Len(stitch.chunks)
        /\ (Len(stitch.chunks) < 2 \/ splitter.chunk_overlap = 0)
              => stitch.result = stitch.chunks
        /\ \A i \in 1..Len(stitch.chunks) :
              \E pre \in PrefixChoices(i), suf \in SuffixChoices(i) :
                  stitch.result[i] = pre \o stitch.chunks[i] \o suf

\* Three chunks stitched with chunk_overlap 1: the middle one got the last
\* character of the first before it and the first of the third after it.
C27_Witness ==
    /\ stitch.made
    /\ splitter.chunk_overlap = 1
    /\ stitch.chunks = << <<"a", "b">>, <<"a">>, <<"b", "a">> >>
    /\ stitch.result = << <<"a", "b", "a">>, <<"b", "a", "b">>,
                          <<"a", "b", "a">> >>

\* Stitching with chunk_overlap = 0 returned two chunks as they were.
StitchedWithoutOverlap ==
    /\ stitch.made
    /\ splitter.chunk_overlap = 0
    /\ Len(stitch.chunks) = 2
    /\ stitch.result = stitch.chunks

\* An interior chunk got the overlap before it and none after it.
PrefixOnly ==
    /\ stitch.made
    /\ Len(stitch.chunks) = 3
    /\ splitter.chunk_overlap > 0
    /\ stitch.result[2] =
          LastChars(stitch.chunks[1], splitter.chunk_overlap)
              \o stitch.chunks[2]
    /\ stitch.result[2] # stitch.chunks[2]

----------------------------------------------------------------------------
(* Properties of the factories, checked under SpecFactory. *)

\* The last call looked a name up in a registry.
LookedUp == factory.last.op \in {"is_registered", "create_with_params"}

\* Two spellings of one name.
SameName(a, b) == Lower(a) = Lower(b)

\* The last lookup found the class a register call stored.
ResolvesTo(class) ==
    IF factory.last.op = "is_registered"
    THEN factory.last.result = <<TRUE>>
    ELSE factory.last.resolved = <<class>>

\* C24: once register(name, cls) has succeeded on either factory, for a name
\* in any letter case, is_registered and create_with_params called with any
\* case variant of that name find cls: is_registered answers True and
\* create_with_params builds from cls.
C24_NamesCaseInsensitive ==
    LookedUp =>
        \A pair \in factory.registered[factory.last.factory] :
            SameName(pair[1], factory.last.name) => ResolvesTo(pair[2])

\* The part of C24 about RerankerFactory alone.
RerankerNamesCaseInsensitive ==
    (LookedUp /\ factory.last.factory = "reranker")
        => \A pair \in factory.registered.reranker :
              SameName(pair[1], factory.last.name) => ResolvesTo(pair[2])

\* SplitterFactory.is_registered answers False for the very name, in the
\* very spelling, that register stored.
RegisteredNameNotFound ==
    /\ factory.last.factory = "splitter"
    /\ factory.last.op = "is_registered"
    /\ factory.last.name \in DOMAIN factory.splitter
    /\ factory.last.result = <<FALSE>>

\* The last call asked RerankerFactory to create a backend that was not in
\* the registry.
UnknownBackend ==
    /\ factory.last.factory = "reranker"
    /\ factory.last.op \in {"create_with_params",
                            "create_from_rerank_settings"}
    /\ Lower(factory.last.name) \notin DOMAIN factory.last.before

\* C25: asking RerankerFactory for a backend that is not in the registry
\* raises RerankerError, through create_with_params and through
\* create_from_rerank_settings, and leaves the registry as it was.
C25_UnknownBackendRaises ==
    UnknownBackend =>
        /\ factory.last.raised = "RerankerError"
        /\ factory.reranker = factory.last.before

\* The part of C25 about create_with_params alone.
UnknownBackendByName ==
    (UnknownBackend /\ factory.last.op = "create_with_params")
        => /\ factory.last.raised = "RerankerError"
           /\ factory.reranker = factory.last.before

\* A lookup that raised left the registry as it was, whatever it raised.
FailedLookupKeepsRegistry ==
    UnknownBackend =>
        /\ factory.last.raised # ""
        /\ factory.reranker = factory.last.before

\* create_from_rerank_settings raised AttributeError for an unknown provider
\* while other backends were registered.
UnknownProviderAttributeError ==
    /\ UnknownBackend
    /\ factory.last.op = "create_from_rerank_settings"
    /\ factory.last.raised = "AttributeError"
    /\ factory.reranker # EmptyRegistry

=============================================================================
